---- MODULE Spec2Model ----
(***************************************************************************)
(* Verification model of the Meet audio-capture extension:                 *)
(*   - the background relay proxy (per-participant and legacy per-tab      *)
(*     WebSocket records) and the offscreen relay queue,                   *)
(*   - the content-script bridge (port, messageQueue),                     *)
(*   - the page: WebRTC interceptor registry, participant detector         *)
(*     (correlation engine), multi-track supervisor and its processors.    *)
(* Each component has its own specification over the shared variables.     *)
(***************************************************************************)
EXTENDS Integers, Sequences, FiniteSets, TLC

\* ------------------------------------------------------------------ bounds
MaxConn == 2        \* WebSocket objects created in one run
MaxMaps == 2        \* per-tab participant Map objects created in one run
MaxFrames == 2      \* frames emitted in one run
MaxTicks == 4       \* clock ticks in one run
MaxEvents == 5      \* events of the page's environment in one run of the page
MaxCaptureEvents == 3 \* events of the environment in one run of the capture path
MaxSupervisorEvents == 3 \* events of the environment in one run of the supervisor
MaxFramesEvents == 1 \* events of the environment in one run of the frame loop
MaxSamples == 1000  \* resampled samples one processor consumes in one run of the frame loop
MaxWinQ == 2        \* undelivered window messages at which the environment waits
MaxListeners == 2   \* 'track' listeners the page puts on a peer connection
MaxInterceptorEvents == 6   \* events of the page in the specification of the interceptor
MaxInterceptorQ == 4        \* undelivered window messages in that specification
MaxQueueEvents == 2 \* events of the environment in one run of the content script's queue
MaxBurstFrames == 50 \* frames emitted in one run of the content script's queue
MaxFrameLen == 2    \* samples of a frame given to floatTo16BitPCM
MaxBlockLen == 6    \* samples of a block given to resampleFloat32
MaxStopEvents == 2  \* events of the environment in one run of the user's stop command
MaxBridgeEvents == 3 \* events of the environment in one run of the bridge and its port
MaxReinjectEvents == 4 \* events of the environment in one run of a page given START_CAPTURE again
MaxInstances == 2   \* instances of the multi-track script in one page
MaxFallbackEvents == 6 \* events of the environment in one run of the fallback path

\* ------------------------------------------------------- program constants
TRACK_ASSIGNMENT_WINDOW_MS == 3000
DEFAULT_SAMPLE_RATE == 16000
FRAME_MS == 20
MESSAGE_QUEUE_MAX == 50
MAX_PORT_ATTEMPTS == 10

\* ------------------------------------------------------------- value sets
Tabs == {1}
NoTab == 0          \* a tabId that is not a number (null / undefined)
Participants == {"p1", "p2"}
NoPid == ""         \* a missing participantId (legacy single-stream message)
NoConn == 0
NoMap == 0
WsStates == {"connecting", "open", "closing", "closed"}
Tracks == {"a1b2c3d4-t1", "e5f6a7b8-t2"}
NoTime == -1        \* no timestamp
TickMs == TRACK_ASSIGNMENT_WINDOW_MS \div 2

VARIABLES
    \* background service worker (relay proxy)
    conns,                  \* every WebSocket created, with the state object its handlers close over
    pmaps,                  \* every per-tab participant Map object created
    wsByTabAndParticipant,  \* __wsByTabAndParticipant: tabId -> participant Map
    wsByTab,                \* __wsByTab: tabId -> legacy state
    \* offscreen document
    off_ws, off_wsReady, pendingBinaryQueue,
    \* page: WebRTC interceptor
    trackState,             \* readyState of each remote audio track: "new", "live", "ended"
    tracksRegistry,         \* tracksRegistry: trackId -> { capturedAt }, in insertion order
    pc,                     \* the peer connection: the wrapped 'track' listeners and the ontrack
                            \* handler on it, the 'ended' listeners put on each track, and the
                            \* history of the events posted for each track
    \* page: participant detector
    participantsRegistry,   \* participantId -> { timestamp }, in insertion order
    trackToParticipant,     \* trackId -> participantId
    pendingTracks,          \* trackId -> { timestamp, fallbackId }, in insertion order
    timers,                 \* fallback timeouts set and not yet run, in the order they were set
    mappedCount,            \* history: TRACK_PARTICIPANT_MAPPED events posted for each track
    resolvedBy,             \* history: what has written the entry of each track
    scans,                  \* history: tiles found and MEET_PARTICIPANT_JOINED posted, per id
    \* page: multi-track supervisor and its processors
    mt_tabId, mt_meetingId, mt_wsBaseUrl,   \* _tabId, _meetingId, _wsBaseUrl
    audioProcessors,        \* audioProcessors: participantId -> processor, in insertion order
    procs,                  \* every ParticipantAudioProcessor constructed
    mtInstances,            \* the audioProcessors Map of each instance of the multi-track
                            \* script, in a page where START_CAPTURE injects it again
    \* page: the window's message events
    winQ,                   \* messages posted to the window and not yet delivered
    now,                    \* Date.now()
    budget,                 \* events the environment may still produce
    \* content script (bridge) and its port to the service worker
    currentTabId, wsPort, portCreationPending, portConnectionAttempts, messageQueue,
    creationTimers,         \* port-creation timeouts set and not yet run
    reconnectTimers,        \* reconnect timeouts set and not yet run
    portQ,                  \* messages posted on the port and not yet received
    \* deployment and history
    captureMode,            \* which capture path feeds the relay in this run
    stopCapture,            \* the user's STOP_CAPTURE: "idle", "sent" to the tab, "posted"
    deviceRate,             \* sampleRate of the AudioContext objects the page can create
    nextFrame,              \* next fresh frame number
    \* the signal functions of a processor, applied on their own
    quant,                  \* floatTo16BitPCM: its argument and what it computed
    resamp                  \* resampleFloat32: its arguments and what it returned

relayVars == <<conns, pmaps, wsByTabAndParticipant, wsByTab>>
offVars == <<off_ws, off_wsReady, pendingBinaryQueue>>
interceptorVars == <<trackState, tracksRegistry, pc>>
detectorVars == <<participantsRegistry, trackToParticipant, pendingTracks, timers, mappedCount,
                  resolvedBy, scans>>
mtGlobals == <<mt_tabId, mt_meetingId, mt_wsBaseUrl, mtInstances>>
supervisorVars == <<audioProcessors, procs>>
pageVars == <<interceptorVars, detectorVars, mtGlobals, supervisorVars, winQ, now,
              budget>>
bridgeVars == <<currentTabId, wsPort, portCreationPending, portConnectionAttempts,
                messageQueue, creationTimers, reconnectTimers, portQ>>
signalVars == <<quant, resamp>>
deployment == <<captureMode, stopCapture, deviceRate, signalVars>>
outsidePage == <<relayVars, offVars, bridgeVars, deployment>>
vars == <<conns, pmaps, wsByTabAndParticipant, wsByTab,
          off_ws, off_wsReady, pendingBinaryQueue, pageVars, bridgeVars, captureMode, stopCapture,
          deviceRate, nextFrame, quant, resamp>>

\* -------------------------------------------------- messages and Map objects
\* a message for the relay proxy (AUDIO_WS_OPEN, AUDIO_WS_SEND, AUDIO_WS_CLOSE)
Msg(type, tab, pid, url, buf) ==
    [type |-> type, tabId |-> tab, participantId |-> pid, url |-> url, buffer |-> buf]

\* a message between the page scripts
WinMsg(type, trackId, participantId, timestamp, tabId) ==
    [type |-> type, trackId |-> trackId, participantId |-> participantId,
     timestamp |-> timestamp, tabId |-> tabId]

\* a JavaScript Map as the sequence of its entries in insertion order
MapHas(m, k) == \E i \in 1..Len(m) : m[i].key = k

MapGet(m, k) == m[CHOOSE i \in 1..Len(m) : m[i].key = k]

MapSet(m, entry) ==
    IF MapHas(m, entry.key)
    THEN [i \in 1..Len(m) |-> IF m[i].key = entry.key THEN entry ELSE m[i]]
    ELSE Append(m, entry)

MapDelete(m, k) == SelectSeq(m, LAMBDA e : e.key # k)

Abs(x) == IF x < 0 THEN -x ELSE x

\* ------------------------------------------------------------ WebSocket
\* new WebSocket(url) together with the state object created next to it
NewConn(kind, tab, pid, pm) ==
    [kind |-> kind, tab |-> tab, pid |-> pid, pmap |-> pm,
     ws |-> "connecting", ready |-> FALSE, queue |-> <<>>, sent |-> <<>>,
     accepted |-> <<>>, flushed |-> 0, byteCounter |-> 0]

\* ws.close(code, reason): starts the closing handshake; the close event follows later
WsCloseCall(cs, c) ==
    IF c # NoConn /\ cs[c].ws \in {"connecting", "open"}
    THEN [cs EXCEPT ![c].ws = "closing"]
    ELSE cs

\* ws.send(buf) throws InvalidStateError while the socket is still connecting
WsSendThrows(cs, c) == cs[c].ws = "connecting"

\* ws.send(buf) on a socket that left the connecting state hands buf to the transport
WsSend(cs, c, buf) == [cs EXCEPT ![c].sent = Append(@, buf)]

\* ------------------------------------------------- background relay proxy
Size(pm) == Cardinality({p \in Participants : pm[p] # NoConn})

EmptyMap == [p \in Participants |-> NoConn]

\* mutant of FlushQueue: the queue is sent but never reset
FlushQueue_NoReset(cs, c) ==
    [cs EXCEPT ![c].sent = @ \o cs[c].queue]

\* for (const buf of state.queue) ws.send(buf); state.queue = []
FlushQueue(cs, c) ==
    [cs EXCEPT ![c].sent = @ \o cs[c].queue, ![c].queue = <<>>]

\* mutant of SendOrQueue: a frame that finds the socket not ready is dropped
SendOrQueue_DropWhenNotReady(cs, c, buf) ==
    LET acc == [cs EXCEPT ![c].accepted = Append(@, buf)]
    IN  IF acc[c].ready /\ ~WsSendThrows(acc, c) THEN WsSend(acc, c, buf) ELSE acc

\* if (state.ready) ws.send(buffer) else state.queue.push(buffer.slice(0))
SendOrQueue(cs, c, buf) ==
    LET acc == [cs EXCEPT ![c].accepted = Append(@, buf)]
    IN  IF acc[c].ready
        THEN IF WsSendThrows(acc, c) THEN acc ELSE WsSend(acc, c, buf)
        ELSE [acc EXCEPT ![c].queue = Append(@, buf)]

\* AUDIO_WS_OPEN with a participantId
OpenParticipant(msg) ==
    IF msg.tabId = NoTab \/ ~msg.url
    THEN UNCHANGED relayVars
    ELSE LET tab == msg.tabId
             pid == msg.participantId
             fresh == wsByTabAndParticipant[tab] = NoMap
             pmaps1 == IF fresh THEN Append(pmaps, EmptyMap) ELSE pmaps
             pm == IF fresh THEN Len(pmaps1) ELSE wsByTabAndParticipant[tab]
             existing == pmaps1[pm][pid]
             conns1 == WsCloseCall(conns, existing)
             c == Len(conns1) + 1
         IN  /\ Len(conns) < MaxConn
             /\ fresh => Len(pmaps) < MaxMaps
             /\ conns' = Append(conns1, NewConn("participant", tab, pid, pm))
             /\ pmaps' = [pmaps1 EXCEPT ![pm][pid] = c]
             /\ wsByTabAndParticipant' = [wsByTabAndParticipant EXCEPT ![tab] = pm]
             /\ UNCHANGED wsByTab

\* closeWsForTab(tabId)
closeWsForTab(cs, byTab, tab) ==
    [conns |-> WsCloseCall(cs, byTab[tab]), wsByTab |-> [byTab EXCEPT ![tab] = NoConn]]

\* AUDIO_WS_OPEN without participantId (legacy single stream)
OpenLegacy(msg) ==
    IF msg.tabId = NoTab \/ ~msg.url
    THEN UNCHANGED relayVars
    ELSE LET tab == msg.tabId
             closed == closeWsForTab(conns, wsByTab, tab)
             c == Len(conns) + 1
         IN  /\ Len(conns) < MaxConn
             /\ conns' = Append(closed.conns, NewConn("legacy", tab, NoPid, NoMap))
             /\ wsByTab' = [closed.wsByTab EXCEPT ![tab] = c]
             /\ UNCHANGED <<pmaps, wsByTabAndParticipant>>

\* the record AUDIO_WS_SEND finds for its (tabId, participantId), NoConn when none
StateFor(msg) ==
    IF msg.tabId = NoTab THEN NoConn
    ELSE IF msg.participantId # NoPid
         THEN IF wsByTabAndParticipant[msg.tabId] = NoMap THEN NoConn
              ELSE pmaps[wsByTabAndParticipant[msg.tabId]][msg.participantId]
         ELSE wsByTab[msg.tabId]

\* what msg.buffer is when it reaches the proxy: an ArrayBuffer, a typed-array view, a
\* typed array serialized to an object with numeric keys, another object, or no object
\* at all (null, undefined, a string, a number)
BufferShapes == {"ArrayBuffer", "view", "serialized", "object", "other"}

\* the bytes of one frame of the processors: frameSamples 16-bit samples
FrameBytes == 2 * ((2 * DEFAULT_SAMPLE_RATE * FRAME_MS + 1000) \div 2000)

\* values of msg.byteLength
ByteLengths == {0, FrameBytes}

\* a buffer of zero bytes only: new Uint8Array(n) with no key copied
ZeroBuffer == 0

\* no buffer to send: the handler returns
NoBuffer == -1

\* msg.byteLength || (buffer && buffer.byteLength) || 0
byteLengthOf(shape, msgByteLength) ==
    IF msgByteLength # 0 THEN msgByteLength
    ELSE IF shape \in {"ArrayBuffer", "view"} THEN FrameBytes ELSE 0

\* the buffer normalisation of AUDIO_WS_SEND: the ArrayBuffer the handler goes on with
normaliseBuffer(buffer, shape, msgByteLength) ==
    CASE shape \in {"ArrayBuffer", "view"} -> buffer
      [] shape = "serialized" -> buffer
      [] shape = "object" ->
            IF byteLengthOf(shape, msgByteLength) > 0 THEN ZeroBuffer ELSE NoBuffer
      [] OTHER -> NoBuffer

\* state._byteCounter += byteLength; the legacy branch resets it at 64000
CountBytes(cs, c, byteLength) ==
    LET n == cs[c].byteCounter + byteLength
    IN  [cs EXCEPT ![c].byteCounter = IF cs[c].kind = "legacy" /\ n >= 64000 THEN 0 ELSE n]

\* AUDIO_WS_SEND, participant and legacy branch, for a buffer of the given shape
SendBuffer(msg, shape, msgByteLength) ==
    LET buffer == normaliseBuffer(msg.buffer, shape, msgByteLength)
        c == StateFor(msg)
    IN  /\ conns' = IF buffer = NoBuffer \/ c = NoConn
                     THEN conns
                     ELSE SendOrQueue(CountBytes(conns, c, byteLengthOf(shape, msgByteLength)),
                                      c, buffer)
        /\ UNCHANGED <<pmaps, wsByTabAndParticipant, wsByTab>>

\* AUDIO_WS_SEND as the content script posts it: a Uint8Array with its byteLength
SendMsg(msg) == SendBuffer(msg, "view", FrameBytes)

\* mutant of CloseParticipant: the tab's participant map is dropped with the record
CloseParticipant_DropsMap(msg) ==
    LET tab == msg.tabId
        pid == msg.participantId
        pm == wsByTabAndParticipant[tab]
    IN  IF pm = NoMap
        THEN UNCHANGED relayVars
        ELSE /\ conns' = WsCloseCall(conns, pmaps[pm][pid])
             /\ pmaps' = [pmaps EXCEPT ![pm][pid] = NoConn]
             /\ wsByTabAndParticipant' = [wsByTabAndParticipant EXCEPT ![tab] = NoMap]
             /\ UNCHANGED wsByTab

\* AUDIO_WS_CLOSE with a participantId
CloseParticipant(msg) ==
    LET tab == msg.tabId
        pid == msg.participantId
        pm == wsByTabAndParticipant[tab]
    IN  IF pm = NoMap
        THEN UNCHANGED relayVars
        ELSE LET pmaps1 == [pmaps EXCEPT ![pm][pid] = NoConn]
             IN  /\ conns' = WsCloseCall(conns, pmaps[pm][pid])
                 /\ pmaps' = pmaps1
                 /\ wsByTabAndParticipant' =
                        IF Size(pmaps1[pm]) = 0
                        THEN [wsByTabAndParticipant EXCEPT ![tab] = NoMap]
                        ELSE wsByTabAndParticipant
                 /\ UNCHANGED wsByTab

\* AUDIO_WS_CLOSE, participant and legacy branch
CloseMsg(msg) ==
    IF msg.tabId = NoTab
    THEN UNCHANGED relayVars
    ELSE IF msg.participantId # NoPid
         THEN CloseParticipant(msg)
         ELSE LET closed == closeWsForTab(conns, wsByTab, msg.tabId)
              IN  /\ conns' = closed.conns
                  /\ wsByTab' = closed.wsByTab
                  /\ UNCHANGED <<pmaps, wsByTabAndParticipant>>

\* handlePortMessage(type, msg)
handlePortMessage(msg) ==
    CASE msg.type = "AUDIO_WS_OPEN" ->
            IF msg.participantId # NoPid THEN OpenParticipant(msg) ELSE OpenLegacy(msg)
      [] msg.type = "AUDIO_WS_SEND" -> SendMsg(msg)
      [] msg.type = "AUDIO_WS_CLOSE" -> CloseMsg(msg)

\* ws.onopen of a participant or legacy socket
RelayOnOpen(c) ==
    /\ conns' = FlushQueue([conns EXCEPT ![c].ws = "open", ![c].ready = TRUE,
                                         ![c].flushed = Len(conns[c].queue)], c)
    /\ UNCHANGED <<pmaps, wsByTabAndParticipant, wsByTab>>

\* ws.onclose of a participant socket: deletes through the Map it closed over
ParticipantOnClose(c) ==
    LET pm == conns[c].pmap
        pmaps1 == [pmaps EXCEPT ![pm][conns[c].pid] = NoConn]
    IN  /\ conns' = [conns EXCEPT ![c].ws = "closed"]
        /\ pmaps' = pmaps1
        /\ wsByTabAndParticipant' =
               IF Size(pmaps1[pm]) = 0
               THEN [wsByTabAndParticipant EXCEPT ![conns[c].tab] = NoMap]
               ELSE wsByTabAndParticipant
        /\ UNCHANGED wsByTab

\* ws.onclose of a legacy socket
LegacyOnClose(c) ==
    /\ conns' = [conns EXCEPT ![c].ws = "closed"]
    /\ wsByTab' = [wsByTab EXCEPT ![conns[c].tab] = NoConn]
    /\ UNCHANGED <<pmaps, wsByTabAndParticipant>>

\* ------------------------------------------------------ offscreen document
\* the ws.onopen handler of openWebSocket: it reads the module-level ws, wsReady and
\* pendingBinaryQueue; a throwing ws.send leaves the loop before the queue is reset
OffOnOpen(c) ==
    LET cs == [conns EXCEPT ![c].ws = "open", ![c].flushed = Len(pendingBinaryQueue)]
    IN  /\ off_wsReady' = TRUE
        /\ IF pendingBinaryQueue = <<>>
           THEN conns' = cs /\ pendingBinaryQueue' = <<>>
           ELSE IF off_ws = NoConn \/ WsSendThrows(cs, off_ws)
                THEN conns' = cs /\ UNCHANGED pendingBinaryQueue
                ELSE /\ conns' = [cs EXCEPT ![off_ws].sent = @ \o pendingBinaryQueue]
                     /\ pendingBinaryQueue' = <<>>
        /\ UNCHANGED off_ws

\* the ws.onclose handler of openWebSocket
OffOnClose(c) ==
    /\ conns' = [conns EXCEPT ![c].ws = "closed"]
    /\ off_wsReady' = FALSE
    /\ UNCHANGED <<off_ws, pendingBinaryQueue>>

\* openWebSocket(url) of the offscreen document; the background sends OFFSCREEN_STOP
\* (stopCaptureForTab) before every OFFSCREEN_START, so ws is null when it runs
OffOpenWebSocket ==
    /\ off_ws = NoConn
    /\ Len(conns) < MaxConn
    /\ conns' = Append(conns, NewConn("offscreen", NoTab, NoPid, NoMap))
    /\ off_ws' = Len(conns) + 1
    /\ UNCHANGED <<off_wsReady, pendingBinaryQueue>>

\* sendPCM(buffer) of the offscreen document; the caller's try/catch swallows a throw
OffSendPCM(buf) ==
    IF off_ws = NoConn
    THEN UNCHANGED <<conns, offVars>>
    ELSE LET acc == [conns EXCEPT ![off_ws].accepted = Append(@, buf)]
         IN  IF off_wsReady
             THEN /\ conns' = IF WsSendThrows(acc, off_ws) THEN acc ELSE WsSend(acc, off_ws, buf)
                  /\ UNCHANGED offVars
             ELSE /\ conns' = acc
                  /\ pendingBinaryQueue' = Append(pendingBinaryQueue, buf)
                  /\ UNCHANGED <<off_ws, off_wsReady>>

\* stopCapture() of the offscreen document (relay part)
OffStopCapture ==
    /\ conns' = WsCloseCall(conns, off_ws)
    /\ off_ws' = NoConn
    /\ off_wsReady' = FALSE
    /\ pendingBinaryQueue' = <<>>

\* ------------------------------------------------- page: WebRTC interceptor
\* track.label of a remote audio track, as the tokens <kind>-<id> or <kind>_<id> it
\* holds, in the order of the text: "remote-audio-participant-p1" for the first track,
\* "user-p2/participant-zz" for the second, and a label without such a token for any other
TrackLabel(t) ==
    IF t = "a1b2c3d4-t1"
    THEN <<[kind |-> "participant", id |-> "p1"]>>
    ELSE IF t = "e5f6a7b8-t2"
    THEN <<[kind |-> "user", id |-> "p2"], [kind |-> "participant", id |-> "zz"]>>
    ELSE <<>>

\* a peer connection on which the page has put n 'track' listeners and, if o, an ontrack
\* handler, before any 'track' event
NewPeerConnection(T, n, o) ==
    [trackListeners |-> n, ontrack |-> o,
     ended |-> [t \in T |-> 0], added |-> [t \in T |-> 0], removed |-> [t \in T |-> 0]]

\* the peer connection of a page that has put one 'track' listener on it
OneListener(T) == NewPeerConnection(T, 1, FALSE)

TrackAdded(trackId, timestamp) == WinMsg("WEBRTC_TRACK_ADDED", trackId, NoPid, timestamp, NoTab)

TrackRemoved(trackId) == WinMsg("WEBRTC_TRACK_REMOVED", trackId, NoPid, now, NoTab)

\* handleRemoteAudioTrack(event, pcId)
handleRemoteAudioTrack(t) ==
    /\ tracksRegistry' = MapSet(tracksRegistry, [key |-> t, capturedAt |-> now])
    /\ winQ' = Append(winQ, TrackAdded(t, now))

\* a 'track' event carrying remote audio track t reaches the one 'track' listener the
\* page has put on the peer connection
TrackEvent ==
    \E t \in Tracks :
        /\ Len(winQ) < MaxWinQ
        /\ trackState[t] = "new"
        /\ trackState' = [trackState EXCEPT ![t] = "live"]
        /\ handleRemoteAudioTrack(t)
        /\ budget > 0
        /\ budget' = budget - 1
        /\ UNCHANGED <<pc, detectorVars, mtGlobals, supervisorVars, now, outsidePage, nextFrame>>

\* the 'ended' event of track t
TrackEnded ==
    \E t \in Tracks :
        /\ Len(winQ) < MaxWinQ
        /\ trackState[t] = "live"
        /\ trackState' = [trackState EXCEPT ![t] = "ended"]
        /\ tracksRegistry' = MapDelete(tracksRegistry, t)
        /\ winQ' = Append(winQ, TrackRemoved(t))
        /\ budget > 0
        /\ budget' = budget - 1
        /\ UNCHANGED <<pc, detectorVars, mtGlobals, supervisorVars, now, outsidePage, nextFrame>>

\* ----------------------------------------------- page: participant detector
\* the patterns of inspectTrackLabel, in the order they are tried
LabelPatterns == <<"participant", "user", "peer">>

\* inspectTrackLabel(trackLabel, streamId): the first pattern that matches the label
\* decides, and String.prototype.match gives its first occurrence in the label
inspectTrackLabel(trackLabel) ==
    LET occurrences(k) == {n \in 1..Len(trackLabel) : trackLabel[n].kind = LabelPatterns[k]}
        matching == {k \in 1..Len(LabelPatterns) : occurrences(k) # {}}
    IN  IF matching = {}
        THEN NoPid
        ELSE LET k == CHOOSE a \in matching : \A b \in matching : a <= b
                 n == CHOOSE a \in occurrences(k) : \A b \in occurrences(k) : a <= b
             IN  trackLabel[n].id

\* `participant-${trackId.substring(0, 8)}`
fallbackId(trackId) ==
    "participant-" \o SubSeq(trackId, 1, IF Len(trackId) < 8 THEN Len(trackId) ELSE 8)

\* the TRACK_PARTICIPANT_MAPPED message; isFallback is set by the fallback timer only
MappedMsg(trackId, participantId, isFallback) ==
    [type |-> "TRACK_PARTICIPANT_MAPPED", trackId |-> trackId, participantId |-> participantId,
     timestamp |-> now, tabId |-> NoTab, isFallback |-> isFallback]

Mapped(trackId, participantId) == MappedMsg(trackId, participantId, FALSE)

\* mutant of TimingMatches: a difference of exactly the window is a match too
TimingMatches_Inclusive(timestamp) ==
    {i \in 1..Len(participantsRegistry) :
        Abs(timestamp - participantsRegistry[i].timestamp) <= TRACK_ASSIGNMENT_WINDOW_MS}

\* the participants of the registry whose join is within the window of timestamp
TimingMatches(timestamp) ==
    {i \in 1..Len(participantsRegistry) :
        Abs(timestamp - participantsRegistry[i].timestamp) < TRACK_ASSIGNMENT_WINDOW_MS}

\* trackToParticipant.set(trackId, participantId) and the TRACK_PARTICIPANT_MAPPED post
MapTrack(q, trackId, participantId, isFallback) ==
    /\ trackToParticipant' = [trackToParticipant EXCEPT ![trackId] = participantId]
    /\ mappedCount' = [mappedCount EXCEPT ![trackId] = @ + 1]
    /\ resolvedBy' = [resolvedBy EXCEPT
                         ![trackId] = @ \cup {IF isFallback THEN "fallback" ELSE "match"}]
    /\ winQ' = Append(q, MappedMsg(trackId, participantId, isFallback))
    /\ UNCHANGED scans

\* the track goes pending and its fallback timeout is set, delay ms from now
MakePending(q, msg, delay) ==
    /\ pendingTracks' = MapSet(pendingTracks,
           [key |-> msg.trackId, timestamp |-> msg.timestamp,
            fallbackId |-> fallbackId(msg.trackId)])
    /\ timers' = Append(timers, [trackId |-> msg.trackId, fallbackId |-> fallbackId(msg.trackId),
                                 setAt |-> now, due |-> now + delay])
    /\ winQ' = q
    /\ UNCHANGED <<participantsRegistry, trackToParticipant, mappedCount, resolvedBy, scans>>

\* the first index of a non-empty set of registry indices (Map iteration order)
FirstOf(matches) == CHOOSE i \in matches : \A j \in matches : i <= j

\* mutant of DetectorOnTrackAdded: timing correlation is tried before the label
DetectorOnTrackAdded_TimingFirst(q, msg) ==
    LET trackId == msg.trackId
        possibleId == inspectTrackLabel(TrackLabel(trackId))
        matches == TimingMatches(msg.timestamp)
    IN  IF matches # {}
        THEN /\ MapTrack(q, trackId, participantsRegistry[FirstOf(matches)].key, FALSE)
             /\ UNCHANGED <<participantsRegistry, pendingTracks, timers>>
        ELSE IF possibleId # NoPid /\ MapHas(participantsRegistry, possibleId)
        THEN /\ MapTrack(q, trackId, possibleId, FALSE)
             /\ UNCHANGED <<participantsRegistry, pendingTracks, timers>>
        ELSE MakePending(q, msg, TRACK_ASSIGNMENT_WINDOW_MS)

\* mutant of DetectorOnTrackAdded: the fallback timeout is set without a delay
DetectorOnTrackAdded_ZeroDelay(q, msg) ==
    LET trackId == msg.trackId
        possibleId == inspectTrackLabel(TrackLabel(trackId))
        matches == TimingMatches(msg.timestamp)
    IN  IF possibleId # NoPid /\ MapHas(participantsRegistry, possibleId)
        THEN /\ MapTrack(q, trackId, possibleId, FALSE)
             /\ UNCHANGED <<participantsRegistry, pendingTracks, timers>>
        ELSE IF matches # {}
        THEN /\ MapTrack(q, trackId, participantsRegistry[FirstOf(matches)].key, FALSE)
             /\ UNCHANGED <<participantsRegistry, pendingTracks, timers>>
        ELSE MakePending(q, msg, 0)

\* the detector's listener on WEBRTC_TRACK_ADDED; q is the window queue behind the message
DetectorOnTrackAdded(q, msg) ==
    LET trackId == msg.trackId
        possibleId == inspectTrackLabel(TrackLabel(trackId))
        matches == TimingMatches(msg.timestamp)
    IN  IF possibleId # NoPid /\ MapHas(participantsRegistry, possibleId)
        THEN /\ MapTrack(q, trackId, possibleId, FALSE)
             /\ UNCHANGED <<participantsRegistry, pendingTracks, timers>>
        ELSE IF matches # {}
        THEN /\ MapTrack(q, trackId, participantsRegistry[FirstOf(matches)].key, FALSE)
             /\ UNCHANGED <<participantsRegistry, pendingTracks, timers>>
        ELSE MakePending(q, msg, TRACK_ASSIGNMENT_WINDOW_MS)

\* mutant of DetectorOnTrackRemoved: every pending track is dropped
DetectorOnTrackRemoved_ClearsPending(msg) ==
    /\ trackToParticipant' = [trackToParticipant EXCEPT ![msg.trackId] = NoPid]
    /\ pendingTracks' = <<>>
    /\ UNCHANGED <<participantsRegistry, timers, mappedCount, resolvedBy, scans>>

\* the detector's listener on WEBRTC_TRACK_REMOVED
DetectorOnTrackRemoved(msg) ==
    /\ trackToParticipant' = [trackToParticipant EXCEPT ![msg.trackId] = NoPid]
    /\ pendingTracks' = MapDelete(pendingTracks, msg.trackId)
    /\ UNCHANGED <<participantsRegistry, timers, mappedCount, resolvedBy, scans>>

\* mutant of assignPendingTracks: the assigned tracks stay in pendingTracks
assignPendingTracks_KeepsPending(participantId, participantJoinedAt) ==
    LET inWindow(e) == Abs(e.timestamp - participantJoinedAt) < TRACK_ASSIGNMENT_WINDOW_MS
        assigned == SelectSeq(pendingTracks, inWindow)
        isAssigned(t) == \E i \in 1..Len(assigned) : assigned[i].key = t
    IN  /\ trackToParticipant' =
               [t \in DOMAIN trackToParticipant |->
                   IF isAssigned(t) THEN participantId ELSE trackToParticipant[t]]
        /\ mappedCount' = [t \in DOMAIN mappedCount |->
                               IF isAssigned(t) THEN mappedCount[t] + 1 ELSE mappedCount[t]]
        /\ resolvedBy' = [t \in DOMAIN resolvedBy |->
                              IF isAssigned(t) THEN resolvedBy[t] \cup {"join"} ELSE resolvedBy[t]]
        /\ winQ' = winQ \o [i \in 1..Len(assigned) |-> Mapped(assigned[i].key, participantId)]
        /\ pendingTracks' = pendingTracks

\* assignPendingTracks(participantId, participantJoinedAt)
assignPendingTracks(participantId, participantJoinedAt) ==
    LET inWindow(e) == Abs(e.timestamp - participantJoinedAt) < TRACK_ASSIGNMENT_WINDOW_MS
        assigned == SelectSeq(pendingTracks, inWindow)
        isAssigned(t) == \E i \in 1..Len(assigned) : assigned[i].key = t
    IN  /\ trackToParticipant' =
               [t \in DOMAIN trackToParticipant |->
                   IF isAssigned(t) THEN participantId ELSE trackToParticipant[t]]
        /\ mappedCount' = [t \in DOMAIN mappedCount |->
                               IF isAssigned(t) THEN mappedCount[t] + 1 ELSE mappedCount[t]]
        /\ resolvedBy' = [t \in DOMAIN resolvedBy |->
                              IF isAssigned(t) THEN resolvedBy[t] \cup {"join"} ELSE resolvedBy[t]]
        /\ winQ' = winQ \o [i \in 1..Len(assigned) |-> Mapped(assigned[i].key, participantId)]
        /\ pendingTracks' = SelectSeq(pendingTracks, LAMBDA e : ~inWindow(e))

\* mutant of scanParticipants: no check for a participant the registry has already
scanParticipants_NoHasCheck ==
    \E p \in Participants :
        /\ Len(winQ) < MaxWinQ
        /\ participantsRegistry' = MapSet(participantsRegistry,
                                       [key |-> p, timestamp |-> now, isFallback |-> FALSE])
        /\ scans' = [scans EXCEPT ![p].found = @ + 1, ![p].posted = @ + 1]
        /\ assignPendingTracks(p, now)
        /\ budget > 0
        /\ budget' = budget - 1
        /\ UNCHANGED <<timers, interceptorVars, mtGlobals, supervisorVars, now,
                       outsidePage, nextFrame>>

\* scanParticipants() finding the tile of one participant: a participant the registry
\* does not have is registered, MEET_PARTICIPANT_JOINED is posted (no script of the
\* extension listens to it) and the pending tracks are tried; one it has is passed over
scanParticipants ==
    \E p \in Participants :
        /\ Len(winQ) < MaxWinQ
        /\ IF ~MapHas(participantsRegistry, p)
           THEN /\ participantsRegistry' =
                       Append(participantsRegistry,
                              [key |-> p, timestamp |-> now, isFallback |-> FALSE])
                /\ scans' = [scans EXCEPT ![p].found = @ + 1, ![p].posted = @ + 1]
                /\ assignPendingTracks(p, now)
           ELSE /\ scans' = [scans EXCEPT ![p].found = @ + 1]
                /\ UNCHANGED <<participantsRegistry, trackToParticipant, pendingTracks,
                               mappedCount, resolvedBy, winQ>>
        /\ budget > 0
        /\ budget' = budget - 1
        /\ UNCHANGED <<timers, interceptorVars, mtGlobals, supervisorVars, now,
                       outsidePage, nextFrame>>

\* the callback of the fallback setTimeout of a pending track
FallbackTimeout ==
    /\ Len(winQ) < MaxWinQ
    /\ timers # <<>>
    /\ Head(timers).due <= now
    /\ timers' = Tail(timers)
    /\ LET trackId == Head(timers).trackId
           fb == Head(timers).fallbackId
       IN  IF MapHas(pendingTracks, trackId)
           THEN /\ pendingTracks' = MapDelete(pendingTracks, trackId)
                /\ participantsRegistry' =
                       IF MapHas(participantsRegistry, fb) THEN participantsRegistry
                       ELSE Append(participantsRegistry,
                                   [key |-> fb, timestamp |-> now, isFallback |-> TRUE])
                /\ MapTrack(winQ, trackId, fb, TRUE)
           ELSE UNCHANGED <<pendingTracks, participantsRegistry, trackToParticipant,
                            mappedCount, resolvedBy, scans, winQ>>
    /\ UNCHANGED <<interceptorVars, mtGlobals, supervisorVars, now, budget,
                   outsidePage, nextFrame>>

\* ------------------------------------------- page: ParticipantAudioProcessor
\* new ParticipantAudioProcessor(participantId, participantName, track, rate); pc is the
\* await at which start() is suspended; bufferQueue is the length of the Float32Array;
\* stopCalls, frames, opens, samples (resampled samples consumed), skipped (mappings
\* skipped because this processor holds the participant) and restarts (start() calls
\* that found it running) are history
NewProcessor(participantId, track) ==
    [participantId |-> participantId, track |-> track, pc |-> "created",
     isRunning |-> FALSE, audioContext |-> FALSE, sourceNode |-> FALSE, gainNode |-> FALSE,
     workletNode |-> FALSE, onmessage |-> FALSE, stream |-> FALSE,
     actualRate |-> 0, bufferQueue |-> 0, bytesSent |-> 0,
     stopCalls |-> 0, frames |-> 0, opens |-> 0, samples |-> 0, skipped |-> 0,
     restarts |-> 0]

\* the supervisor's objects and the window's queue q, as one value
SupState(q) == [procs |-> procs, audioProcessors |-> audioProcessors, winQ |-> q]

\* mutant of stop: the worklet port keeps its message handler
stop_KeepsHandler(S, i) ==
    [S EXCEPT !.procs[i] = [@ EXCEPT !.isRunning = FALSE, !.audioContext = FALSE,
                                     !.sourceNode = FALSE, !.gainNode = FALSE,
                                     !.stream = FALSE, !.stopCalls = @ + 1],
              !.winQ = Append(@, Msg("AUDIO_WS_CLOSE", mt_tabId, S.procs[i].participantId, TRUE, 0))]

\* mutant of stop: returns at once when the processor is not running
stop_OnlyWhenRunning(S, i) ==
    IF ~S.procs[i].isRunning
    THEN [S EXCEPT !.procs[i].stopCalls = @ + 1]
    ELSE [S EXCEPT !.procs[i] = [@ EXCEPT !.isRunning = FALSE, !.audioContext = FALSE,
                                          !.sourceNode = FALSE, !.gainNode = FALSE,
                                          !.workletNode = FALSE, !.onmessage = FALSE,
                                          !.stream = FALSE, !.stopCalls = @ + 1],
                   !.winQ = Append(@, Msg("AUDIO_WS_CLOSE", mt_tabId, S.procs[i].participantId,
                                          TRUE, 0))]

\* stop(): detaches the worklet handler, closes the context, posts AUDIO_WS_CLOSE and
\* clears every reference; every call of its try block is guarded or cannot throw, and
\* the finally block runs in any case
stop(S, i) ==
    [S EXCEPT !.procs[i] = [@ EXCEPT !.isRunning = FALSE, !.audioContext = FALSE,
                                     !.sourceNode = FALSE, !.gainNode = FALSE,
                                     !.workletNode = FALSE, !.onmessage = FALSE,
                                     !.stream = FALSE, !.stopCalls = @ + 1],
              !.winQ = Append(@, Msg("AUDIO_WS_CLOSE", mt_tabId, S.procs[i].participantId, TRUE, 0))]

\* openWebSocket(): posts AUDIO_WS_OPEN unless the base URL or the meeting id is missing
openWebSocket(S, i) ==
    IF ~mt_wsBaseUrl \/ ~mt_meetingId
    THEN S
    ELSE [S EXCEPT !.procs[i].opens = @ + 1,
                   !.winQ = Append(@, Msg("AUDIO_WS_OPEN", mt_tabId, S.procs[i].participantId, TRUE, 0))]

\* mutant of start: no check of isRunning
start_NoRunningCheck(S, i, outcome) ==
    LET S1 == [S EXCEPT !.procs[i].stream = TRUE]
        S2 == [S1 EXCEPT !.procs[i].audioContext = TRUE, !.procs[i].actualRate = deviceRate]
    IN  CASE outcome = "throws" -> stop([S1 EXCEPT !.procs[i].pc = "done"], i)
          [] outcome = "suspended" -> [S2 EXCEPT !.procs[i].pc = "atResume"]
          [] outcome = "running" ->
                [S2 EXCEPT !.procs[i].sourceNode = TRUE, !.procs[i].gainNode = TRUE,
                           !.procs[i].pc = "atAddModule"]

\* start() up to its first await: returns at once on a running processor. outcome:
\* "throws" (the AudioContext or the source node cannot be created), "suspended" (the
\* new context is suspended: await resume()) or "running" (straight on to setupWorklet:
\* await addModule())
start(S, i, outcome) ==
    LET S1 == [S EXCEPT !.procs[i].stream = TRUE]
        S2 == [S1 EXCEPT !.procs[i].audioContext = TRUE, !.procs[i].actualRate = deviceRate]
    IN  IF S.procs[i].isRunning
        THEN [S EXCEPT !.procs[i].restarts = @ + 1]
        ELSE CASE outcome = "throws" -> stop([S1 EXCEPT !.procs[i].pc = "done"], i)
               [] outcome = "suspended" -> [S2 EXCEPT !.procs[i].pc = "atResume"]
               [] outcome = "running" ->
                     [S2 EXCEPT !.procs[i].sourceNode = TRUE, !.procs[i].gainNode = TRUE,
                                !.procs[i].pc = "atAddModule"]

\* start() resumed after await this.audioContext.resume(); a stop() in between has set
\* audioContext to null and createMediaStreamSource throws a TypeError
afterResume(S, i, resolved) ==
    IF ~resolved \/ ~S.procs[i].audioContext
    THEN stop([S EXCEPT !.procs[i].pc = "done"], i)
    ELSE [S EXCEPT !.procs[i].sourceNode = TRUE, !.procs[i].gainNode = TRUE,
                   !.procs[i].pc = "atAddModule"]

\* mutant of afterAddModule: goes on although stop() has cleared the context
afterAddModule_IgnoresStop(S, i, resolved) ==
    IF ~resolved
    THEN stop([S EXCEPT !.procs[i].pc = "done"], i)
    ELSE openWebSocket([S EXCEPT !.procs[i].workletNode = TRUE, !.procs[i].onmessage = TRUE,
                                 !.procs[i].isRunning = TRUE, !.procs[i].pc = "done"], i)

\* start() resumed after await addModule() in setupWorklet; a stop() in between has set
\* audioContext to null and new AudioWorkletNode throws a TypeError. Otherwise the
\* handler is installed, the graph connected, the socket requested and isRunning set
afterAddModule(S, i, resolved) ==
    IF ~resolved \/ ~S.procs[i].audioContext
    THEN stop([S EXCEPT !.procs[i].pc = "done"], i)
    ELSE openWebSocket([S EXCEPT !.procs[i].workletNode = TRUE, !.procs[i].onmessage = TRUE,
                                 !.procs[i].isRunning = TRUE, !.procs[i].pc = "done"], i)

\* the AUDIO_WS_SEND a processor posts: buffer is the number of the frame and samples
\* the 16-bit samples the ArrayBuffer holds
PcmMsg(tab, pid, buffer, samples) ==
    [type |-> "AUDIO_WS_SEND", tabId |-> tab, participantId |-> pid, url |-> TRUE,
     buffer |-> buffer, samples |-> samples]

\* sendPCM(buffer)
sendPCM(S, i, buffer, samples) ==
    [S EXCEPT !.procs[i].frames = @ + 1,
              !.winQ = Append(@, PcmMsg(mt_tabId, S.procs[i].participantId, buffer, samples))]

\* Math.round((targetSampleRate * FRAME_MS) / 1000)
frameSamples == (2 * DEFAULT_SAMPLE_RATE * FRAME_MS + 1000) \div 2000

\* the length of resampleFloat32(buffer, sourceRate, targetRate):
\* Math.round(buffer.length / (sourceRate / targetRate))
resampleLength(length, sourceRate, targetRate) ==
    IF sourceRate = targetRate
    THEN length
    ELSE (2 * length * targetRate + sourceRate) \div (2 * sourceRate)

\* ------------------------------------------- page: the signal functions
\* samples are counted in millionths of full scale; a gain g is the fraction num/den
\* with g = Unit * num / den, so that (sample * num) / den is the amplified sample in
\* full scales
Unit == 1000 * 1000

\* the sample n/d of full scale
Frac(n, d) == (n * Unit) \div d

Max(a, b) == IF a > b THEN a ELSE b

\* quotient and remainder of a * b by c, for a, b >= 0 and c > 0, one binary digit of b
\* at a time (the product itself is too large for the checker's integers)
RECURSIVE MulDiv(_, _, _)
MulDiv(a, b, c) ==
    IF b = 0
    THEN [q |-> 0, r |-> 0]
    ELSE LET h == MulDiv(a, b \div 2, c)
             add == IF b % 2 = 1 THEN a ELSE 0
             r2 == 2 * h.r + (add % c)
         IN  [q |-> 2 * h.q + (add \div c) + (r2 \div c), r |-> r2 % c]

\* n * k / d truncated toward zero, as the conversion of a number to an integer does
Trunc(n, k, d) == IF n < 0 THEN -MulDiv(-n, k, d).q ELSE MulDiv(n, k, d).q

\* storing v in an Int16Array: v modulo 2^16, in [-32768, 32767]
ToInt16(v) == ((v + 32768) % 65536) - 32768

\* the peak of floatTo16BitPCM: the largest Math.abs of the samples, 0 for no sample
RECURSIVE PeakOf(_)
PeakOf(float32) ==
    IF float32 = <<>> THEN 0 ELSE Max(Abs(Head(float32)), PeakOf(Tail(float32)))

\* mutant of GainFor: the gain is applied from any peak above 0
GainFor_FromZero(peak) ==
    IF peak > 0 /\ peak < Frac(3, 10)
    THEN IF 50 * peak < Frac(7, 10)
         THEN [num |-> 50, den |-> Unit]
         ELSE [num |-> 7, den |-> 10 * peak]
    ELSE [num |-> 1, den |-> Unit]

\* gain = 1.0; if (peak > 0.00001 && peak < 0.3) gain = Math.min(50.0, 0.7 / peak)
GainFor(peak) ==
    IF peak > Unit \div 100000 /\ peak < Frac(3, 10)
    THEN IF 50 * peak < Frac(7, 10)
         THEN [num |-> 50, den |-> Unit]
         ELSE [num |-> 7, den |-> 10 * peak]
    ELSE [num |-> 1, den |-> Unit]

\* mutant of Scale: the sample is scaled without being clamped
Scale_NoClamp(x, gain) ==
    LET n == x * gain.num
    IN  IF n < 0 THEN Trunc(n, 32768, gain.den) ELSE Trunc(n, 32767, gain.den)

\* let s = float32[i] * gain; if (s > 1) s = 1; else if (s < -1) s = -1;
\* s < 0 ? s * 0x8000 : s * 0x7fff, as the integer the Int16Array is given
Scale(x, gain) ==
    LET n == x * gain.num
    IN  IF n > gain.den THEN 32767
        ELSE IF n < -gain.den THEN -32768
        ELSE IF n < 0 THEN Trunc(n, 32768, gain.den) ELSE Trunc(n, 32767, gain.den)

\* floatTo16BitPCM(float32): scaled are the numbers assigned to out[i], out what the
\* Int16Array holds
floatTo16BitPCM(float32) ==
    LET peak == PeakOf(float32)
        gain == GainFor(peak)
        scaled == [i \in 1..Len(float32) |-> Scale(float32[i], gain)]
    IN  [float32 |-> float32, called |-> TRUE, peak |-> peak, gain |-> gain,
         scaled |-> scaled, out |-> [i \in 1..Len(float32) |-> ToInt16(scaled[i])]]

\* Math.round(a / b) for a >= 0, b > 0
Round(a, b) == (2 * a + b) \div (2 * b)

\* one element of the result of resampleFloat32: the samples of buffer from
\* Math.round(k * ratio) up to Math.round((k + 1) * ratio), summed and counted
\* (result[k] = count > 0 ? accum / count : 0)
RECURSIVE SumOf(_)
SumOf(seq) == IF seq = <<>> THEN 0 ELSE Head(seq) + SumOf(Tail(seq))

Averaged(buffer, k, sourceRate, targetRate) ==
    LET from == Round(k * sourceRate, targetRate)
        upto == Round((k + 1) * sourceRate, targetRate)
        last == IF upto > Len(buffer) THEN Len(buffer) ELSE upto
        part == IF last > from THEN SubSeq(buffer, from + 1, last) ELSE <<>>
    IN  [accum |-> SumOf(part), count |-> Len(part)]

\* mutant of resampleFloat32: the new length is rounded down
resampleFloat32_Floor(buffer, sourceRate, targetRate) ==
    IF sourceRate = targetRate
    THEN [k \in 1..Len(buffer) |-> [accum |-> buffer[k], count |-> 1]]
    ELSE LET newLength == (Len(buffer) * targetRate) \div sourceRate
         IN  [k \in 1..newLength |-> Averaged(buffer, k - 1, sourceRate, targetRate)]

\* resampleFloat32(buffer, sourceRate, targetRate); an element is accum / count, and a
\* sample of the buffer itself is the sample / 1
resampleFloat32(buffer, sourceRate, targetRate) ==
    IF sourceRate = targetRate
    THEN [k \in 1..Len(buffer) |-> [accum |-> buffer[k], count |-> 1]]
    ELSE LET newLength == Round(Len(buffer) * targetRate, sourceRate)
         IN  [k \in 1..newLength |-> Averaged(buffer, k - 1, sourceRate, targetRate)]

\* floatTo16BitPCM and resampleFloat32 before they are called
NoQuant == [float32 |-> <<>>, called |-> FALSE, peak |-> 0, gain |-> [num |-> 1, den |-> Unit],
            scaled |-> <<>>, out |-> <<>>]

NoResample == [buffer |-> <<>>, sourceRate |-> DEFAULT_SAMPLE_RATE,
               targetRate |-> DEFAULT_SAMPLE_RATE, called |-> FALSE, result |-> <<>>]

SignalIdle == quant = NoQuant /\ resamp = NoResample

\* a call of floatTo16BitPCM on the frame at hand
Quantize ==
    /\ ~quant.called
    /\ quant' = floatTo16BitPCM(quant.float32)
    /\ UNCHANGED <<relayVars, offVars, pageVars, bridgeVars, captureMode, stopCapture, deviceRate,
                   nextFrame, resamp>>

\* a call of resampleFloat32 on the block at hand
Resample ==
    /\ ~resamp.called
    /\ resamp' = [resamp EXCEPT !.called = TRUE,
                                !.result = resampleFloat32(resamp.buffer, resamp.sourceRate,
                                                           resamp.targetRate)]
    /\ UNCHANGED <<relayVars, offVars, pageVars, bridgeVars, captureMode, stopCapture, deviceRate,
                   nextFrame, quant>>

\* the length of bufferQueue.subarray(begin, end) for 0 <= begin <= end: end is clamped
\* to the length of the array
subarrayLength(length, begin, end) ==
    LET e == IF end > length THEN length ELSE end
    IN  IF e > begin THEN e - begin ELSE 0

\* const pcm = floatTo16BitPCM(frame); sendPCM(pcm); bytesSent += pcm.byteLength
SendFrame(S, i, length, offset, frame) ==
    LET n == subarrayLength(length, offset, offset + frameSamples)
    IN  [sendPCM(S, i, frame, n) EXCEPT !.procs[i].bytesSent = @ + 2 * n]

\* mutant of FrameLoop: a frame is cut only when more than a frame is buffered
RECURSIVE FrameLoop_StrictlyMore(_, _, _, _, _)
FrameLoop_StrictlyMore(S, i, length, offset, frame) ==
    IF length - offset > frameSamples
    THEN FrameLoop_StrictlyMore(SendFrame(S, i, length, offset, frame), i, length,
                                offset + frameSamples, frame + 1)
    ELSE [S EXCEPT !.procs[i].bufferQueue = length - offset]

\* mutant of FrameLoop: whatever is buffered is sent, the last frame short
RECURSIVE FrameLoop_SendsRemainder(_, _, _, _, _)
FrameLoop_SendsRemainder(S, i, length, offset, frame) ==
    IF length - offset > 0
    THEN FrameLoop_SendsRemainder(SendFrame(S, i, length, offset, frame), i, length,
                                  offset + frameSamples, frame + 1)
    ELSE [S EXCEPT !.procs[i].bufferQueue = 0]

\* while (bufferQueue.length - offset >= frameSamples) { sendPCM(frame); offset += ... }
\* and the remainder kept; frame is the number the next frame gets
RECURSIVE FrameLoop(_, _, _, _, _)
FrameLoop(S, i, length, offset, frame) ==
    IF length - offset >= frameSamples
    THEN FrameLoop(SendFrame(S, i, length, offset, frame), i, length,
                   offset + frameSamples, frame + 1)
    ELSE [S EXCEPT !.procs[i].bufferQueue = length - offset]

\* workletNode.port.onmessage for an audio block of blockLength samples
onmessage(S, i, blockLength, frame) ==
    IF blockLength = 0
    THEN S
    ELSE LET resampled == resampleLength(blockLength, S.procs[i].actualRate, DEFAULT_SAMPLE_RATE)
             S1 == [S EXCEPT !.procs[i].samples = @ + resampled]
         IN  FrameLoop(S1, i, S.procs[i].bufferQueue + resampled, 0, frame)

\* ------------------------------------------- page: multi-track supervisor
\* mutant of handleRemoteTrack: no check for an existing processor
handleRemoteTrack_NoHasCheck(S, participantId, track, outcome) ==
    LET i == Len(S.procs) + 1
    IN  start([S EXCEPT !.procs = Append(@, NewProcessor(participantId, track)),
                        !.audioProcessors = MapSet(@, [key |-> participantId, proc |-> i])],
              i, outcome)

\* handleRemoteTrack(participantId, participantName, track)
handleRemoteTrack(S, participantId, track, outcome) ==
    IF MapHas(S.audioProcessors, participantId)
    THEN [S EXCEPT !.procs[MapGet(S.audioProcessors, participantId).proc].skipped = @ + 1]
    ELSE LET i == Len(S.procs) + 1
         IN  start([S EXCEPT !.procs = Append(@, NewProcessor(participantId, track)),
                             !.audioProcessors = MapSet(@, [key |-> participantId, proc |-> i])],
                   i, outcome)

\* the supervisor's listener on TRACK_PARTICIPANT_MAPPED
SupervisorOnMapped(S, msg, outcome) ==
    IF MapHas(tracksRegistry, msg.trackId)
    THEN handleRemoteTrack(S, msg.participantId, msg.trackId, outcome)
    ELSE S

\* the entries of the active set bound to trackId
BoundTo(S, trackId) ==
    {k \in 1..Len(S.audioProcessors) : S.procs[S.audioProcessors[k].proc].track = trackId}

\* the supervisor's listener on WEBRTC_TRACK_REMOVED: the first processor bound to the
\* track is stopped and deleted
SupervisorOnTrackRemoved(S, msg) ==
    LET bound == BoundTo(S, msg.trackId)
    IN  IF bound = {}
        THEN S
        ELSE LET e == S.audioProcessors[CHOOSE k \in bound : \A j \in bound : k <= j]
                 S1 == stop(S, e.proc)
             IN  [S1 EXCEPT !.audioProcessors = MapDelete(@, e.key)]

\* mutant of StopEach: only the processors that are running are stopped
RECURSIVE StopEach_SkipsSuspended(_, _)
StopEach_SkipsSuspended(S, k) ==
    IF k > Len(S.audioProcessors) THEN S
    ELSE StopEach_SkipsSuspended(IF S.procs[S.audioProcessors[k].proc].isRunning
                                 THEN stop(S, S.audioProcessors[k].proc) ELSE S, k + 1)

\* for (const processor of audioProcessors.values()) processor.stop()
RECURSIVE StopEach(_, _)
StopEach(S, k) ==
    IF k > Len(S.audioProcessors) THEN S
    ELSE StopEach(stop(S, S.audioProcessors[k].proc), k + 1)

\* the supervisor's listener on AUDIO_CAPTURE_STOP_MULTITRACK
SupervisorOnStop(S) == [StopEach(S, 1) EXCEPT !.audioProcessors = <<>>]

\* the WEBRTC_TRACK_ADDED messages AUDIO_CAPTURE_START_MULTITRACK posts for the tracks
\* already in the interceptor's registry
ReplayTracks == [k \in 1..Len(tracksRegistry) |->
                    TrackAdded(tracksRegistry[k].key, tracksRegistry[k].capturedAt)]

SetSupState(S) ==
    /\ procs' = S.procs
    /\ audioProcessors' = S.audioProcessors
    /\ winQ' = S.winQ

StartOutcomes == {"throws", "suspended", "running"}

\* the listeners of the instances of the multi-track script take TRACK_PARTICIPANT_MAPPED
\* one after the other, in the order the instances were injected; R holds every
\* processor, the window's queue and the Map of each instance
RECURSIVE OnMappedInEach(_, _, _, _)
OnMappedInEach(R, k, msg, outcomes) ==
    IF k > Len(R.instances)
    THEN R
    ELSE LET S == SupervisorOnMapped([procs |-> R.procs, audioProcessors |-> R.instances[k],
                                      winQ |-> R.winQ], msg, outcomes[k])
         IN  OnMappedInEach([procs |-> S.procs, winQ |-> S.winQ,
                             instances |-> [R.instances EXCEPT ![k] = S.audioProcessors]],
                            k + 1, msg, outcomes)

\* ---------------------------------------------------- page: message events
\* the window delivers WEBRTC_TRACK_ADDED (detector)
DeliverTrackAdded ==
    /\ winQ # <<>>
    /\ Head(winQ).type = "WEBRTC_TRACK_ADDED"
    /\ DetectorOnTrackAdded(Tail(winQ), Head(winQ))
    /\ UNCHANGED <<interceptorVars, mtGlobals, supervisorVars, now, budget, outsidePage, nextFrame>>

\* the window delivers WEBRTC_TRACK_REMOVED (detector, then supervisor)
DeliverTrackRemoved ==
    /\ winQ # <<>>
    /\ Head(winQ).type = "WEBRTC_TRACK_REMOVED"
    /\ DetectorOnTrackRemoved(Head(winQ))
    /\ SetSupState(SupervisorOnTrackRemoved(SupState(Tail(winQ)), Head(winQ)))
    /\ UNCHANGED <<interceptorVars, mtGlobals, now, budget, outsidePage, nextFrame>>

\* the window delivers TRACK_PARTICIPANT_MAPPED (supervisor)
DeliverMapped ==
    \E outcome \in StartOutcomes :
        /\ winQ # <<>>
        /\ Head(winQ).type = "TRACK_PARTICIPANT_MAPPED"
        /\ SetSupState(SupervisorOnMapped(SupState(Tail(winQ)), Head(winQ), outcome))
        /\ UNCHANGED <<interceptorVars, detectorVars, mtGlobals, now, budget, outsidePage, nextFrame>>

\* the window delivers AUDIO_CAPTURE_START_MULTITRACK (supervisor)
DeliverStart ==
    /\ winQ # <<>>
    /\ Head(winQ).type = "AUDIO_CAPTURE_START_MULTITRACK"
    /\ mt_tabId' = Head(winQ).tabId
    /\ mt_meetingId' = TRUE
    /\ mt_wsBaseUrl' = TRUE
    /\ winQ' = Tail(winQ) \o ReplayTracks
    /\ UNCHANGED <<mtInstances, interceptorVars, detectorVars, supervisorVars, now, budget,
                   outsidePage, nextFrame>>

\* the window delivers TRACK_PARTICIPANT_MAPPED to every instance of the multi-track script
DeliverMappedAll ==
    \E outcomes \in [1..Len(mtInstances) -> StartOutcomes] :
        /\ winQ # <<>>
        /\ Head(winQ).type = "TRACK_PARTICIPANT_MAPPED"
        /\ LET R == OnMappedInEach([procs |-> procs, winQ |-> Tail(winQ),
                                    instances |-> mtInstances], 1, Head(winQ), outcomes)
           IN  /\ procs' = R.procs
               /\ winQ' = R.winQ
               /\ mtInstances' = R.instances
        /\ UNCHANGED <<audioProcessors, mt_tabId, mt_meetingId, mt_wsBaseUrl, interceptorVars,
                       detectorVars, now, budget, outsidePage, nextFrame>>

\* the window delivers AUDIO_CAPTURE_START_MULTITRACK to every instance of the multi-track
\* script: each sets its globals and posts WEBRTC_TRACK_ADDED for the captured tracks
DeliverStartAll ==
    /\ winQ # <<>>
    /\ Head(winQ).type = "AUDIO_CAPTURE_START_MULTITRACK"
    /\ mt_tabId' = Head(winQ).tabId
    /\ mt_meetingId' = TRUE
    /\ mt_wsBaseUrl' = TRUE
    /\ winQ' = Tail(winQ) \o
                [j \in 1..(Len(mtInstances) * Len(tracksRegistry)) |->
                    ReplayTracks[((j - 1) % Len(tracksRegistry)) + 1]]
    /\ UNCHANGED <<mtInstances, interceptorVars, detectorVars, supervisorVars, now, budget,
                   outsidePage, nextFrame>>

\* the window delivers AUDIO_CAPTURE_STOP_MULTITRACK (supervisor)
DeliverStop ==
    /\ winQ # <<>>
    /\ Head(winQ).type = "AUDIO_CAPTURE_STOP_MULTITRACK"
    /\ SetSupState(SupervisorOnStop(SupState(Tail(winQ))))
    /\ UNCHANGED <<interceptorVars, detectorVars, mtGlobals, now, budget, outsidePage, nextFrame>>

\* the promise of audioContext.resume() settles and start() goes on
ResumeSettled ==
    \E i \in 1..Len(procs), resolved \in BOOLEAN :
        /\ procs[i].pc = "atResume"
        /\ SetSupState(afterResume(SupState(winQ), i, resolved))
        /\ UNCHANGED <<interceptorVars, detectorVars, mtGlobals, now, budget, outsidePage, nextFrame>>

\* the promise of audioWorklet.addModule() settles and setupWorklet() goes on
AddModuleSettled ==
    \E i \in 1..Len(procs), resolved \in BOOLEAN :
        /\ procs[i].pc = "atAddModule"
        /\ SetSupState(afterAddModule(SupState(winQ), i, resolved))
        /\ UNCHANGED <<interceptorVars, detectorVars, mtGlobals, now, budget, outsidePage, nextFrame>>

\* the worklet port delivers an audio block to the handler of a processor
WorkletBlock(i, blockLength) ==
    LET S == onmessage(SupState(winQ), i, blockLength, nextFrame)
    IN  /\ procs[i].onmessage
        /\ SetSupState(S)
        /\ nextFrame' = nextFrame + (S.procs[i].frames - procs[i].frames)
        /\ UNCHANGED <<interceptorVars, detectorVars, mtGlobals, now, budget, outsidePage>>

\* start() is called on a processor that is running; the script leaves its processors
\* within reach of the page as window.__audioCaptureMultiTrack.audioProcessors
StartCalled ==
    \E k \in 1..Len(audioProcessors), outcome \in StartOutcomes :
        /\ procs[audioProcessors[k].proc].isRunning
        /\ budget > 0
        /\ budget' = budget - 1
        /\ SetSupState(start(SupState(winQ), audioProcessors[k].proc, outcome))
        /\ UNCHANGED <<interceptorVars, detectorVars, mtGlobals, now, outsidePage, nextFrame>>

\* blocks of one frame each
WorkletMessage ==
    \E i \in 1..Len(procs) :
        /\ nextFrame <= MaxFrames
        /\ WorkletBlock(i, frameSamples)

\* blocks of one frame each, the running processors posting them in turn, in the order
\* the processors were constructed
WorkletInTurn ==
    \E i \in 1..Len(procs) :
        /\ procs[i].onmessage
        /\ nextFrame <= MaxBurstFrames
        /\ Len(winQ) < MaxWinQ
        /\ \A j \in 1..Len(procs) :
              procs[j].onmessage
                 => /\ procs[i].frames <= procs[j].frames
                    /\ j < i => procs[i].frames < procs[j].frames
        /\ WorkletBlock(i, frameSamples)

\* blocks of any of these lengths: empty, the worklet's 128 samples, less than a frame,
\* a frame, several frames
BlockLengths == {0, 128, 300, 320, 441, 700, 960}

WorkletBlocks ==
    \E i \in 1..Len(procs), blockLength \in BlockLengths :
        /\ procs[i].onmessage
        /\ procs[i].samples + resampleLength(blockLength, procs[i].actualRate,
                                             DEFAULT_SAMPLE_RATE) <= MaxSamples
        /\ WorkletBlock(i, blockLength)

\* -------------------------------------------------- page: its environment
\* time passes
Tick ==
    /\ now + TickMs <= MaxTicks * TickMs
    /\ now' = now + TickMs
    /\ budget > 0
    /\ budget' = budget - 1
    /\ UNCHANGED <<interceptorVars, detectorVars, mtGlobals, supervisorVars, winQ,
                   outsidePage, nextFrame>>

\* the content script's INJECT_AND_START_MULTITRACK handler posts the start command
InjectAndStartMultitrack ==
    \E tab \in Tabs :
        /\ Len(winQ) < MaxWinQ
        /\ budget > 0
        /\ budget' = budget - 1
        /\ currentTabId' = tab
        /\ winQ' = Append(winQ, WinMsg("AUDIO_CAPTURE_START_MULTITRACK", "", NoPid, now, tab))
        /\ UNCHANGED <<interceptorVars, detectorVars, mtGlobals, supervisorVars, now,
                       relayVars, offVars, deployment, wsPort, portCreationPending,
                       portConnectionAttempts, messageQueue, creationTimers, reconnectTimers,
                       portQ, nextFrame>>

\* an AUDIO_CAPTURE_STOP_MULTITRACK message is posted to the window
StopMultitrackPosted ==
    /\ Len(winQ) < MaxWinQ
    /\ budget > 0
    /\ budget' = budget - 1
    /\ winQ' = Append(winQ, WinMsg("AUDIO_CAPTURE_STOP_MULTITRACK", "", NoPid, now, NoTab))
    /\ UNCHANGED <<interceptorVars, detectorVars, mtGlobals, supervisorVars, now,
                   outsidePage, nextFrame>>

RelayTypes == {"AUDIO_WS_OPEN", "AUDIO_WS_SEND", "AUDIO_WS_CLOSE"}

\* the window delivers an AUDIO_WS_* message: no page script listens to it, it is the
\* content script's (BridgeOnMessage); this is the step as the page scripts see it
DeliverRelayMessage ==
    /\ winQ # <<>>
    /\ Head(winQ).type \in RelayTypes
    /\ winQ' = Tail(winQ)
    /\ UNCHANGED <<interceptorVars, detectorVars, mtGlobals, supervisorVars, now,
                   budget, outsidePage, nextFrame>>

\* ------------------------------------------------ content script (bridge)
\* the bridge's own objects as one value
BridgeState ==
    [wsPort |-> wsPort, portCreationPending |-> portCreationPending,
     portConnectionAttempts |-> portConnectionAttempts, messageQueue |-> messageQueue,
     creationTimers |-> creationTimers, portQ |-> portQ]

SetBridgeState(B) ==
    /\ wsPort' = B.wsPort
    /\ portCreationPending' = B.portCreationPending
    /\ portConnectionAttempts' = B.portConnectionAttempts
    /\ messageQueue' = B.messageQueue
    /\ creationTimers' = B.creationTimers
    /\ portQ' = B.portQ

\* mutant of PortPost: the message overtakes the messages still in flight
PortPost_Overtakes(B, msg) ==
    IF B.wsPort = "connected" THEN [B EXCEPT !.portQ = <<msg>> \o @] ELSE B

\* port.postMessage(msg): a connected port carries the message to the service worker;
\* on a port whose worker is gone, and whose disconnect the page has not seen yet, the
\* message is lost
PortPost(B, msg) ==
    IF B.wsPort = "connected" THEN [B EXCEPT !.portQ = Append(@, msg)] ELSE B

\* ensurePort(): returns wsPort when there is one (the PING it posts is ignored by the
\* service worker); otherwise asks for a port once and returns null
ensurePort(B) ==
    IF B.wsPort # "null" \/ B.portCreationPending
    THEN B
    ELSE [B EXCEPT !.portCreationPending = TRUE, !.portConnectionAttempts = @ + 1,
                   !.creationTimers = @ + 1]

\* mutant of FlushMessageQueue: the first message of the queue is not posted
FlushMessageQueue_SkipsFirst(B) ==
    [B EXCEPT !.messageQueue = <<>>,
              !.portQ = IF B.wsPort = "connected" /\ B.messageQueue # <<>>
                        THEN @ \o Tail(B.messageQueue) ELSE @]

\* const queue = messageQueue.slice(); messageQueue = []; for (msg of queue) postMessage
FlushMessageQueue(B) ==
    [B EXCEPT !.messageQueue = <<>>,
              !.portQ = IF B.wsPort = "connected" THEN @ \o B.messageQueue ELSE @]

\* data.tabId ?? currentTabId
TabIdOf(data) == IF data.tabId # NoTab THEN data.tabId ELSE currentTabId

\* the content script's window listener on AUDIO_WS_OPEN, AUDIO_WS_SEND, AUDIO_WS_CLOSE
BridgeOnMessage(B, data) ==
    LET port == B.wsPort
        B1 == ensurePort(B)
        message == Msg(data.type, TabIdOf(data), data.participantId, data.url, data.buffer)
    IN  IF port # "null"
        THEN PortPost(B1, message)
        ELSE IF data.type = "AUDIO_WS_SEND" /\ Len(B1.messageQueue) >= MESSAGE_QUEUE_MAX
             THEN B1
             ELSE [B1 EXCEPT !.messageQueue = Append(@, message)]

\* the window delivers an AUDIO_WS_* message to the content script
DeliverToBridge ==
    /\ winQ # <<>>
    /\ Head(winQ).type \in RelayTypes
    /\ winQ' = Tail(winQ)
    /\ SetBridgeState(BridgeOnMessage(BridgeState, Head(winQ)))
    /\ UNCHANGED <<interceptorVars, detectorVars, mtGlobals, supervisorVars, now, budget,
                   relayVars, offVars, deployment, currentTabId, reconnectTimers, nextFrame>>

\* the 100 ms timeout of ensurePort(): connects the port and flushes the queue
PortCreationTimeout ==
    /\ creationTimers > 0
    /\ LET B == [BridgeState EXCEPT !.creationTimers = @ - 1, !.portCreationPending = FALSE]
       IN  IF wsPort # "null"
           THEN SetBridgeState(B)
           ELSE SetBridgeState(FlushMessageQueue([B EXCEPT !.wsPort = "connected"]))
    /\ UNCHANGED <<pageVars, relayVars, offVars, deployment, currentTabId, reconnectTimers,
                   nextFrame>>

\* the port's onDisconnect listener
PortDisconnected ==
    /\ wsPort = "severed"
    /\ wsPort' = "null"
    /\ portCreationPending' = FALSE
    /\ reconnectTimers' = reconnectTimers + 1
    /\ UNCHANGED <<pageVars, relayVars, offVars, deployment, currentTabId,
                   portConnectionAttempts, messageQueue, creationTimers, portQ, nextFrame>>

\* the 1000 ms timeout set by onDisconnect
ReconnectTimeout ==
    /\ reconnectTimers > 0
    /\ reconnectTimers' = reconnectTimers - 1
    /\ IF wsPort = "null" /\ portConnectionAttempts < MAX_PORT_ATTEMPTS
       THEN SetBridgeState(ensurePort(BridgeState))
       ELSE UNCHANGED <<wsPort, portCreationPending, portConnectionAttempts, messageQueue,
                        creationTimers, portQ>>
    /\ UNCHANGED <<pageVars, relayVars, offVars, deployment, currentTabId, nextFrame>>

\* the service worker's port.onMessage listener
PortReceive ==
    /\ portQ # <<>>
    /\ portQ' = Tail(portQ)
    /\ handlePortMessage(Head(portQ))
    /\ UNCHANGED <<pageVars, offVars, deployment, currentTabId, wsPort, portCreationPending,
                   portConnectionAttempts, messageQueue, creationTimers, reconnectTimers,
                   nextFrame>>

\* the browser stops the service worker: its sockets and maps are gone, the messages in
\* flight are lost, and the port is cut
ServiceWorkerStops ==
    /\ budget > 0
    /\ budget' = budget - 1
    /\ conns' = [c \in 1..Len(conns) |-> [conns[c] EXCEPT !.ws = "closed"]]
    /\ wsByTabAndParticipant' = [t \in Tabs |-> NoMap]
    /\ wsByTab' = [t \in Tabs |-> NoConn]
    /\ portQ' = <<>>
    /\ wsPort' = IF wsPort = "connected" THEN "severed" ELSE wsPort
    /\ UNCHANGED <<pmaps, interceptorVars, detectorVars, mtGlobals, supervisorVars, winQ, now,
                   offVars, deployment, currentTabId, portCreationPending,
                   portConnectionAttempts, messageQueue, creationTimers, reconnectTimers,
                   nextFrame>>

\* the service worker's runtime listener on the STOP_CAPTURE of the popup's stop button,
\* in content mode: STOP_CAPTURE is sent to the tab and closeWsForTab(tabId) is called
StopCapture ==
    \E tab \in Tabs :
        /\ stopCapture # "sent"
        /\ budget > 0
        /\ budget' = budget - 1
        /\ stopCapture' = "sent"
        /\ conns' = closeWsForTab(conns, wsByTab, tab).conns
        /\ wsByTab' = closeWsForTab(conns, wsByTab, tab).wsByTab
        /\ UNCHANGED <<pmaps, wsByTabAndParticipant, offVars, interceptorVars, detectorVars,
                       mtGlobals, supervisorVars, winQ, now, bridgeVars, captureMode,
                       deviceRate, signalVars, nextFrame>>

\* the content script's runtime listener on STOP_CAPTURE: posts AUDIO_CAPTURE_STOP
ContentOnStopCapture ==
    /\ stopCapture = "sent"
    /\ stopCapture' = "posted"
    /\ winQ' = Append(winQ, WinMsg("AUDIO_CAPTURE_STOP", "", NoPid, now, NoTab))
    /\ UNCHANGED <<relayVars, offVars, interceptorVars, detectorVars, mtGlobals,
                   supervisorVars, now, budget, bridgeVars, captureMode, deviceRate,
                   signalVars, nextFrame>>

\* the window delivers AUDIO_CAPTURE_STOP: the listeners of the detector and of the
\* multi-track script have no branch for it
DeliverCaptureStop ==
    /\ winQ # <<>>
    /\ Head(winQ).type = "AUDIO_CAPTURE_STOP"
    /\ winQ' = Tail(winQ)
    /\ UNCHANGED <<interceptorVars, detectorVars, mtGlobals, supervisorVars, now,
                   budget, outsidePage, nextFrame>>

\* START_CAPTURE for a tab that has the scripts already: executeScript runs the
\* multi-track script again (the interceptor returns at its guard), and the content
\* script posts the start command of INJECT_AND_START_MULTITRACK
StartCaptureAgain ==
    \E tab \in Tabs :
        /\ Len(winQ) < MaxWinQ
        /\ Len(mtInstances) < MaxInstances
        /\ budget > 0
        /\ budget' = budget - 1
        /\ mtInstances' = Append(mtInstances, <<>>)
        /\ currentTabId' = tab
        /\ winQ' = Append(winQ, WinMsg("AUDIO_CAPTURE_START_MULTITRACK", "", NoPid, now, tab))
        /\ UNCHANGED <<mt_tabId, mt_meetingId, mt_wsBaseUrl, interceptorVars, detectorVars,
                       supervisorVars, now, relayVars, offVars, deployment, wsPort,
                       portCreationPending, portConnectionAttempts, messageQueue,
                       creationTimers, reconnectTimers, portQ, nextFrame>>

\* the detector posts TRACK_PARTICIPANT_MAPPED for some track and participant (its three
\* mapping paths, taken as given in the specification of the capture path)
MappingPosted ==
    \E t \in Tracks, p \in Participants :
        /\ Len(winQ) < MaxWinQ
        /\ budget > 0
        /\ budget' = budget - 1
        /\ winQ' = Append(winQ, Mapped(t, p))
        /\ UNCHANGED <<interceptorVars, detectorVars, mtGlobals, supervisorVars, now,
                       outsidePage, nextFrame>>

\* --------------------------------------- specification of the relay queues
ConnIds == 1..Len(conns)

RelayInit ==
    /\ stopCapture = "idle"
    /\ conns = <<>>
    /\ pmaps = <<>>
    /\ wsByTabAndParticipant = [t \in Tabs |-> NoMap]
    /\ wsByTab = [t \in Tabs |-> NoConn]

OffInit ==
    /\ off_ws = NoConn
    /\ off_wsReady = FALSE
    /\ pendingBinaryQueue = <<>>

PortInit ==
    /\ wsPort = "null"
    /\ portCreationPending = FALSE
    /\ portConnectionAttempts = 0
    /\ messageQueue = <<>>
    /\ creationTimers = 0
    /\ reconnectTimers = 0
    /\ portQ = <<>>

BridgeInit ==
    /\ currentTabId = NoTab
    /\ PortInit

PageInit ==
    /\ trackState = [t \in Tracks |-> "new"]
    /\ tracksRegistry = <<>>
    /\ pc = OneListener(Tracks)
    /\ participantsRegistry = <<>>
    /\ trackToParticipant = [t \in Tracks |-> NoPid]
    /\ pendingTracks = <<>>
    /\ timers = <<>>
    /\ mappedCount = [t \in Tracks |-> 0]
    /\ resolvedBy = [t \in Tracks |-> {}]
    /\ scans = [p \in Participants |-> [found |-> 0, posted |-> 0]]
    /\ mt_tabId = NoTab
    /\ mt_meetingId = FALSE
    /\ mt_wsBaseUrl = FALSE
    /\ audioProcessors = <<>>
    /\ procs = <<>>
    /\ mtInstances = <<>>
    /\ winQ = <<>>
    /\ now = 0
    /\ budget = MaxEvents

\* the participantId the page's capture script puts in its relay messages
PidsOf(mode) == IF mode = "multitrack" THEN Participants ELSE {NoPid}

\* port.onMessage listener receiving AUDIO_WS_OPEN
RecvOpen ==
    \E tab \in Tabs \cup {NoTab}, pid \in PidsOf(captureMode), url \in BOOLEAN :
        /\ captureMode \in {"multitrack", "legacy"}
        /\ handlePortMessage(Msg("AUDIO_WS_OPEN", tab, pid, url, 0))
        /\ UNCHANGED <<offVars, deployment, nextFrame, pageVars, bridgeVars>>

\* port.onMessage listener receiving AUDIO_WS_SEND with a buffer of one of the shapes
RecvSendOf(shapes) ==
    \E tab \in Tabs \cup {NoTab}, pid \in PidsOf(captureMode),
       shape \in shapes, msgByteLength \in ByteLengths :
        /\ captureMode \in {"multitrack", "legacy"}
        /\ nextFrame <= MaxFrames
        /\ SendBuffer(Msg("AUDIO_WS_SEND", tab, pid, TRUE, nextFrame), shape, msgByteLength)
        /\ nextFrame' = nextFrame + 1
        /\ UNCHANGED <<offVars, deployment, pageVars, bridgeVars>>

\* port.onMessage listener receiving AUDIO_WS_SEND
RecvSend == RecvSendOf(BufferShapes)

\* port.onMessage listener receiving AUDIO_WS_CLOSE
RecvClose ==
    \E tab \in Tabs \cup {NoTab}, pid \in PidsOf(captureMode) :
        /\ captureMode \in {"multitrack", "legacy"}
        /\ handlePortMessage(Msg("AUDIO_WS_CLOSE", tab, pid, TRUE, 0))
        /\ UNCHANGED <<offVars, deployment, nextFrame, pageVars, bridgeVars>>

\* the open event of a WebSocket
WsOpenEvent ==
    \E c \in ConnIds :
        /\ conns[c].ws = "connecting"
        /\ IF conns[c].kind = "offscreen"
           THEN OffOnOpen(c) /\ UNCHANGED <<pmaps, wsByTabAndParticipant, wsByTab>>
           ELSE RelayOnOpen(c) /\ UNCHANGED offVars
        /\ UNCHANGED <<deployment, nextFrame, pageVars, bridgeVars>>

\* the error event of a WebSocket: the transport has failed and its close event is
\* pending; the onerror handlers only log
WsErrorEvent ==
    \E c \in ConnIds :
        /\ conns[c].ws \in {"connecting", "open"}
        /\ conns' = [conns EXCEPT ![c].ws = "closing"]
        /\ UNCHANGED <<pmaps, wsByTabAndParticipant, wsByTab, offVars, deployment, nextFrame, pageVars, bridgeVars>>

\* the close event of a WebSocket
WsCloseEvent ==
    \E c \in ConnIds :
        /\ conns[c].ws \in {"connecting", "open", "closing"}
        /\ CASE conns[c].kind = "participant" -> ParticipantOnClose(c) /\ UNCHANGED offVars
             [] conns[c].kind = "legacy" -> LegacyOnClose(c) /\ UNCHANGED offVars
             [] conns[c].kind = "offscreen" ->
                    OffOnClose(c) /\ UNCHANGED <<pmaps, wsByTabAndParticipant, wsByTab>>
        /\ UNCHANGED <<deployment, nextFrame, pageVars, bridgeVars>>

\* OFFSCREEN_START reaching openWebSocket
OffStart ==
    /\ captureMode = "offscreen"
    /\ OffOpenWebSocket
    /\ UNCHANGED <<pmaps, wsByTabAndParticipant, wsByTab, deployment, nextFrame, pageVars, bridgeVars>>

\* a frame leaving the offscreen frame loop
OffFrame ==
    /\ captureMode = "offscreen"
    /\ nextFrame <= MaxFrames
    /\ OffSendPCM(nextFrame)
    /\ nextFrame' = nextFrame + 1
    /\ UNCHANGED <<pmaps, wsByTabAndParticipant, wsByTab, deployment, pageVars, bridgeVars>>

\* OFFSCREEN_STOP
OffStop ==
    /\ captureMode = "offscreen"
    /\ OffStopCapture
    /\ UNCHANGED <<pmaps, wsByTabAndParticipant, wsByTab, deployment, nextFrame, pageVars, bridgeVars>>

CaptureModes == {"multitrack", "legacy", "offscreen"}

\* the relay queues: the background proxy fed by the multi-track or the legacy page
\* script, or the offscreen document's own queue (CAPTURE_MODE)
Init ==
    /\ RelayInit
    /\ OffInit
    /\ SignalIdle
    /\ PageInit
    /\ BridgeInit
    /\ captureMode \in CaptureModes
    /\ deviceRate = DEFAULT_SAMPLE_RATE
    /\ nextFrame = 1

RelayNext ==
    \/ RecvOpen
    \/ RecvSend
    \/ RecvClose
    \/ WsOpenEvent
    \/ WsErrorEvent
    \/ WsCloseEvent
    \/ OffStart
    \/ OffFrame
    \/ OffStop

SpecRelay == Init /\ [][RelayNext]_vars


\* ------------------------------------- specification of the page scripts
\* the interceptor, the detector and the multi-track supervisor in one page
InitPage ==
    /\ RelayInit
    /\ OffInit
    /\ SignalIdle
    /\ PageInit
    /\ BridgeInit
    /\ captureMode = "multitrack"
    /\ deviceRate = DEFAULT_SAMPLE_RATE
    /\ nextFrame = 1

PageNext ==
    \/ Tick
    \/ TrackEvent
    \/ TrackEnded
    \/ scanParticipants
    \/ FallbackTimeout
    \/ InjectAndStartMultitrack
    \/ DeliverTrackAdded
    \/ DeliverTrackRemoved
    \/ DeliverMapped
    \/ DeliverStart
    \/ DeliverRelayMessage

SpecPage == InitPage /\ [][PageNext]_vars


\* ---------------------- specification of the capture path of a running page
\* processors, content script, port and relay proxy, with both tracks captured and the
\* start command either handled or not yet given; n events of the environment
RunningPage(n) ==
    /\ RelayInit
    /\ OffInit
    /\ SignalIdle
    /\ PortInit
    /\ captureMode = "multitrack"
    /\ nextFrame = 1
    /\ trackState = [t \in Tracks |-> "live"]
    /\ pc = OneListener(Tracks)
    /\ tracksRegistry = <<[key |-> "a1b2c3d4-t1", capturedAt |-> 0],
                          [key |-> "e5f6a7b8-t2", capturedAt |-> 0]>>
    /\ participantsRegistry = <<>>
    /\ trackToParticipant = [t \in Tracks |-> NoPid]
    /\ pendingTracks = <<>>
    /\ timers = <<>>
    /\ mappedCount = [t \in Tracks |-> 0]
    /\ resolvedBy = [t \in Tracks |-> {}]
    /\ scans = [p \in Participants |-> [found |-> 0, posted |-> 0]]
    /\ \E started \in BOOLEAN :
          /\ currentTabId = IF started THEN 1 ELSE NoTab
          /\ mt_tabId = currentTabId
          /\ mt_meetingId = started
          /\ mt_wsBaseUrl = started
    /\ audioProcessors = <<>>
    /\ procs = <<>>
    /\ mtInstances = <<>>
    /\ winQ = <<>>
    /\ now = 0
    /\ budget = n

InitCapture == RunningPage(MaxCaptureEvents) /\ deviceRate = DEFAULT_SAMPLE_RATE

CaptureNext ==
    \/ MappingPosted
    \/ StopMultitrackPosted
    \/ DeliverMapped
    \/ DeliverStop
    \/ ResumeSettled
    \/ AddModuleSettled
    \/ WorkletMessage
    \/ DeliverToBridge
    \/ PortCreationTimeout
    \/ PortDisconnected
    \/ ReconnectTimeout
    \/ PortReceive
    \/ ServiceWorkerStops
    \/ WsOpenEvent
    \/ WsErrorEvent
    \/ WsCloseEvent

SpecCapture == InitCapture /\ [][CaptureNext]_vars

\* ------------------------- specification of the supervisor and its processors
\* the capture path cut at the window: the AUDIO_WS_* messages are taken off the
\* queue by the content script and followed no further
InitSupervisor == RunningPage(MaxSupervisorEvents) /\ deviceRate = DEFAULT_SAMPLE_RATE

SupervisorNext ==
    \/ MappingPosted
    \/ TrackEnded
    \/ StopMultitrackPosted
    \/ DeliverMapped
    \/ DeliverTrackRemoved
    \/ DeliverStop
    \/ ResumeSettled
    \/ AddModuleSettled
    \/ WorkletMessage
    \/ DeliverRelayMessage

SpecSupervisor == InitSupervisor /\ [][SupervisorNext]_vars

\* -------------------- specification of the supervisor with start() called again
\* the supervisor and its processors, and calls of start() on running processors
StartAgainNext ==
    \/ MappingPosted
    \/ TrackEnded
    \/ StopMultitrackPosted
    \/ StartCalled
    \/ DeliverMapped
    \/ DeliverTrackRemoved
    \/ DeliverStop
    \/ ResumeSettled
    \/ AddModuleSettled
    \/ WorkletMessage
    \/ DeliverRelayMessage

SpecStartAgain == InitSupervisor /\ [][StartAgainNext]_vars

\* ----------------------- specification of the content script's message queue
\* two processors posting frames in turn while the content script waits for its port
InitSharedQueue == RunningPage(MaxQueueEvents) /\ deviceRate = DEFAULT_SAMPLE_RATE

SharedQueueNext ==
    \/ MappingPosted
    \/ DeliverMapped
    \/ ResumeSettled
    \/ AddModuleSettled
    \/ WorkletInTurn
    \/ DeliverToBridge
    \/ PortCreationTimeout

SpecSharedQueue == InitSharedQueue /\ [][SharedQueueNext]_vars

\* ------------------------------- specification of the user's stop command
\* the capture path of a running page and the STOP_CAPTURE of the popup; the window, the
\* port and the promises deliver what they hold, and a socket that is connecting opens
InitStopCapture == RunningPage(MaxStopEvents) /\ deviceRate = DEFAULT_SAMPLE_RATE

StopCaptureNext ==
    \/ MappingPosted
    \/ StopCapture
    \/ ContentOnStopCapture
    \/ DeliverCaptureStop
    \/ DeliverMapped
    \/ ResumeSettled
    \/ AddModuleSettled
    \/ WorkletMessage
    \/ DeliverToBridge
    \/ PortCreationTimeout
    \/ PortReceive
    \/ WsOpenEvent
    \/ WsCloseEvent

SpecStopCapture ==
    /\ InitStopCapture
    /\ [][StopCaptureNext]_vars
    /\ WF_vars(ContentOnStopCapture)
    /\ WF_vars(DeliverCaptureStop)
    /\ WF_vars(DeliverMapped)
    /\ WF_vars(ResumeSettled)
    /\ WF_vars(AddModuleSettled)
    /\ WF_vars(DeliverToBridge)
    /\ WF_vars(PortCreationTimeout)
    /\ WF_vars(PortReceive)
    /\ WF_vars(WsOpenEvent)

\* ------------------------- specification of a page given START_CAPTURE again
\* the first START_CAPTURE has put the scripts in the page and its start command is on
\* its way; each later START_CAPTURE adds an instance of the multi-track script. The
\* detector is taken once: its later instances post mapping events of their own
InitReinject ==
    /\ RelayInit
    /\ OffInit
    /\ SignalIdle
    /\ PortInit
    /\ currentTabId = 1
    /\ captureMode = "multitrack"
    /\ deviceRate = DEFAULT_SAMPLE_RATE
    /\ nextFrame = 1
    /\ trackState = [t \in Tracks |-> "new"]
    /\ tracksRegistry = <<>>
    /\ pc = OneListener(Tracks)
    /\ participantsRegistry = <<>>
    /\ trackToParticipant = [t \in Tracks |-> NoPid]
    /\ pendingTracks = <<>>
    /\ timers = <<>>
    /\ mappedCount = [t \in Tracks |-> 0]
    /\ resolvedBy = [t \in Tracks |-> {}]
    /\ scans = [p \in Participants |-> [found |-> 0, posted |-> 0]]
    /\ mt_tabId = NoTab
    /\ mt_meetingId = FALSE
    /\ mt_wsBaseUrl = FALSE
    /\ audioProcessors = <<>>
    /\ procs = <<>>
    /\ mtInstances = << <<>> >>
    /\ winQ = <<WinMsg("AUDIO_CAPTURE_START_MULTITRACK", "", NoPid, 0, 1)>>
    /\ now = 0
    /\ budget = MaxReinjectEvents

ReinjectNext ==
    \/ TrackEvent
    \/ scanParticipants
    \/ StartCaptureAgain
    \/ DeliverTrackAdded
    \/ DeliverMappedAll
    \/ DeliverStartAll
    \/ ResumeSettled
    \/ AddModuleSettled
    \/ DeliverRelayMessage

SpecReinject == InitReinject /\ [][ReinjectNext]_vars

\* ------------------------------------ specification of the fallback path
\* three tracks captured by the interceptor before the detector is in the page, two of
\* them with ids that begin with the same eight characters; the start command offers
\* them to the detector
FallbackTracks == Tracks \cup {"a1b2c3d4-t3"}

InitFallback ==
    /\ RelayInit
    /\ OffInit
    /\ SignalIdle
    /\ BridgeInit
    /\ captureMode = "multitrack"
    /\ deviceRate = DEFAULT_SAMPLE_RATE
    /\ nextFrame = 1
    /\ trackState = [t \in FallbackTracks |-> "live"]
    /\ pc = OneListener(FallbackTracks)
    /\ tracksRegistry = <<[key |-> "a1b2c3d4-t1", capturedAt |-> 0],
                          [key |-> "e5f6a7b8-t2", capturedAt |-> 0],
                          [key |-> "a1b2c3d4-t3", capturedAt |-> 0]>>
    /\ participantsRegistry = <<>>
    /\ trackToParticipant = [t \in FallbackTracks |-> NoPid]
    /\ pendingTracks = <<>>
    /\ timers = <<>>
    /\ mappedCount = [t \in FallbackTracks |-> 0]
    /\ resolvedBy = [t \in FallbackTracks |-> {}]
    /\ scans = [p \in Participants |-> [found |-> 0, posted |-> 0]]
    /\ mt_tabId = NoTab
    /\ mt_meetingId = FALSE
    /\ mt_wsBaseUrl = FALSE
    /\ audioProcessors = <<>>
    /\ procs = <<>>
    /\ mtInstances = <<>>
    /\ winQ = <<>>
    /\ now = 0
    /\ budget = MaxFallbackEvents

FallbackNext ==
    \/ Tick
    \/ scanParticipants
    \/ FallbackTimeout
    \/ InjectAndStartMultitrack
    \/ DeliverStart
    \/ DeliverTrackAdded
    \/ DeliverMapped
    \/ DeliverRelayMessage

SpecFallback == InitFallback /\ [][FallbackNext]_vars

\* ------------------------------- specifications of the signal functions
\* samples from silence to beyond full scale, on both sides of the thresholds of the gain
Samples == {-Frac(5, 2), -Unit, -Frac(3, 10), 1 - Frac(3, 10), -Frac(1, 50),
            -11, -10, -5, 0, 5, 10, 11, Frac(1, 100), Frac(14, 1000),
            1 + Frac(14, 1000), Frac(1, 50), Frac(3, 10) - 1, Frac(3, 10),
            Frac(1, 2), Frac(7, 10), Unit, Frac(3, 2)}

InitQuantize ==
    /\ RelayInit
    /\ OffInit
    /\ PageInit
    /\ BridgeInit
    /\ captureMode = "multitrack"
    /\ deviceRate = DEFAULT_SAMPLE_RATE
    /\ nextFrame = 1
    /\ resamp = NoResample
    /\ \E n \in 1..MaxFrameLen :
          \E float32 \in [1..n -> Samples] : quant = [NoQuant EXCEPT !.float32 = float32]

SpecQuantize == InitQuantize /\ [][Quantize]_vars

\* the rates of an audio context and of the target, and the samples of a block
Rates == {8000, DEFAULT_SAMPLE_RATE, 32000, 44100, 48000}

BlockSamples == {-Frac(1, 2), Frac(1, 4)}

InitResample ==
    /\ RelayInit
    /\ OffInit
    /\ PageInit
    /\ BridgeInit
    /\ captureMode = "multitrack"
    /\ deviceRate = DEFAULT_SAMPLE_RATE
    /\ nextFrame = 1
    /\ quant = NoQuant
    /\ \E n \in 0..MaxBlockLen, sourceRate \in Rates, targetRate \in Rates :
          \E buffer \in [1..n -> BlockSamples] :
              resamp = [NoResample EXCEPT !.buffer = buffer, !.sourceRate = sourceRate,
                                          !.targetRate = targetRate]

SpecResample == InitResample /\ [][Resample]_vars

\* ------------------------------------- specification of the frame loop
\* one mapping, and then audio blocks of many lengths at the rates an AudioContext can
\* have: the rate asked for, or the device's own when the browser refuses it
SourceRates == {DEFAULT_SAMPLE_RATE, 44100, 48000}

InitFrames == RunningPage(MaxFramesEvents) /\ deviceRate \in SourceRates

FramesNext ==
    \/ MappingPosted
    \/ DeliverMapped
    \/ ResumeSettled
    \/ AddModuleSettled
    \/ WorkletBlocks
    \/ DeliverRelayMessage

SpecFrames == InitFrames /\ [][FramesNext]_vars

\* ------------------------------------------------------------------ claims
\* the relay queue feeding socket c
QueueOf(c) == IF conns[c].kind = "offscreen" THEN pendingBinaryQueue ELSE conns[c].queue

\* a frame arrived for socket c in this step
Arrived(c) == Len(conns'[c].accepted) = Len(conns[c].accepted) + 1

\* C1: for every relay queue (per-participant, legacy per-tab, offscreen) a frame that
\* arrives while the transport is still connecting is appended to the queue, and the
\* step in which the transport opens transmits the queued frames in arrival order,
\* each once, and leaves the queue empty.
C1_QueuedFramesFlushedInOrder ==
    [][\A c \in ConnIds :
          /\ (conns[c].ws = "connecting" /\ Arrived(c))
                => /\ QueueOf(c)' = Append(QueueOf(c), conns'[c].accepted[Len(conns'[c].accepted)])
                   /\ conns'[c].sent = conns[c].sent
          /\ (conns[c].ws = "connecting" /\ conns'[c].ws = "open")
                => /\ QueueOf(c)' = <<>>
                   /\ \A d \in ConnIds :
                        conns'[d].sent = IF d = c THEN conns[c].sent \o QueueOf(c)
                                         ELSE conns[d].sent]_vars

\* C2: every frame a (tab, participant) record has accepted is, while the record is in
\* the proxy's map, either transmitted or still in the record's queue, in order.
RecordOf(tab, pid) ==
    IF wsByTabAndParticipant[tab] = NoMap THEN NoConn
    ELSE pmaps[wsByTabAndParticipant[tab]][pid]

C1_Witness ==
    \E c \in ConnIds :
        /\ conns[c].ws = "open"
        /\ conns[c].flushed >= 2
        /\ conns[c].sent = conns[c].accepted
        /\ QueueOf(c) = <<>>

Increasing(seq) == \A a, b \in 1..Len(seq) : a < b => seq[a] < seq[b]

\* C3: frames are numbered as the processors emit them; what the proxy hands to a
\* participant's transport keeps that order, through the window, the content script's
\* message queue, the port and the proxy's outbound queue, and a later connection of
\* the same participant carries only later frames than an earlier one.
C3_FramesReachTransportInOrder ==
    \A c \in ConnIds :
        /\ Increasing(conns[c].sent)
        /\ \A d \in ConnIds :
              (c < d /\ conns[c].tab = conns[d].tab /\ conns[c].pid = conns[d].pid)
                 => \A a \in 1..Len(conns[c].sent), b \in 1..Len(conns[d].sent) :
                       conns[c].sent[a] < conns[d].sent[b]

C3_Witness ==
    \E c \in ConnIds :
        /\ Len(conns[c].sent) >= 2
        /\ conns[c].flushed >= 1
        /\ portConnectionAttempts >= 1

\* stop() has been called on processor p and has left it stopped
Stopped(p) ==
    /\ p.stopCalls >= 1
    /\ ~p.isRunning
    /\ ~p.onmessage
    /\ ~p.audioContext
    /\ ~p.sourceNode
    /\ ~p.gainNode
    /\ ~p.workletNode

\* a processor without its history of skipped mappings
Object(p) == [p EXCEPT !.skipped = 0]

\* the processors of participant pid on which stop() has not been called
Unstopped(ps, pid) == {i \in 1..Len(ps) : ps[i].participantId = pid /\ ps[i].stopCalls = 0}

\* C4: after every step at most one processor per participant id has not been stopped,
\* the active set has one entry per participant id, and the step that handles a mapping
\* event for a participant already in the active set constructs nothing and leaves the
\* active set and every processor, the first one and its track included, as they were.
C4_OneProcessorPerParticipant ==
    [][/\ \A pid \in Participants : Cardinality(Unstopped(procs', pid)) <= 1
       /\ \A k, j \in 1..Len(audioProcessors') :
             /\ audioProcessors'[k].key = audioProcessors'[j].key => k = j
             /\ procs'[audioProcessors'[k].proc].participantId = audioProcessors'[k].key
       /\ (DeliverMapped /\ MapHas(audioProcessors, Head(winQ).participantId))
             => /\ audioProcessors' = audioProcessors
                /\ Len(procs') = Len(procs)
                /\ \A i \in 1..Len(procs) : Object(procs'[i]) = Object(procs[i])]_vars

C4_Witness ==
    \E i \in 1..Len(procs) :
        /\ procs[i].skipped >= 1
        /\ procs[i].stopCalls = 0
        /\ MapHas(audioProcessors, procs[i].participantId)
        /\ MapGet(audioProcessors, procs[i].participantId).proc = i
        /\ Len(procs) = 1

\* C5: while a track is live, TRACK_PARTICIPANT_MAPPED has been posted for it at most
\* once.
C5_AtMostOneMappingPerTrack ==
    \A t \in Tracks : trackState[t] = "live" => mappedCount[t] <= 1

\* the AUDIO_WS_CLOSE messages for participant pid in queue q
Closes(q, pid) ==
    Len(SelectSeq(q, LAMBDA m : m.type = "AUDIO_WS_CLOSE" /\ m.participantId = pid))

\* nothing is on its way from the page to the proxy
Drained == winQ = <<>> /\ messageQueue = <<>> /\ portQ = <<>>

\* C6: the step that handles AUDIO_CAPTURE_STOP_MULTITRACK leaves the active set empty,
\* leaves every processor that was in it stopped, one suspended inside start() included,
\* and posts one AUDIO_WS_CLOSE for each; a stopped processor stays stopped; and once
\* the messages have drained, a participant whose processors are all stopped has no
\* record in the proxy.
C6_GlobalStopStopsAndClosesAll ==
    [][/\ DeliverStop
          => /\ audioProcessors' = <<>>
             /\ \A k \in 1..Len(audioProcessors) :
                   /\ Stopped(procs'[audioProcessors[k].proc])
                   /\ Closes(winQ', audioProcessors[k].key)
                         = Closes(Tail(winQ), audioProcessors[k].key) + 1
       /\ \A i \in 1..Len(procs) : procs[i].stopCalls >= 1 => Stopped(procs'[i])
       /\ Drained'
          => \A tab \in Tabs, pid \in Participants :
                (\A i \in 1..Len(procs') :
                    procs'[i].participantId = pid => procs'[i].stopCalls >= 1)
                   => RecordOf(tab, pid)' = NoConn]_vars

C6_Witness ==
    /\ Drained
    /\ audioProcessors = <<>>
    /\ \E i, j \in 1..Len(procs) :
          /\ procs[i].stopCalls >= 1
          /\ procs[i].pc # "done"
          /\ procs[j].stopCalls >= 1
          /\ procs[j].opens >= 1
          /\ \E c \in ConnIds :
                /\ conns[c].pid = procs[j].participantId
                /\ conns[c].ws \in {"closing", "closed"}

\* the supervisor has handled the WEBRTC_TRACK_REMOVED of track t
RemovedHandled(t) ==
    /\ trackState[t] = "ended"
    /\ \A k \in 1..Len(winQ) :
          ~(winQ[k].type = "WEBRTC_TRACK_REMOVED" /\ winQ[k].trackId = t)

\* C7: once WEBRTC_TRACK_REMOVED for a track has been handled, no processor bound to
\* the track is in the active set, and the track is not pending, so that its fallback
\* timer maps nothing and adds no fallback participant.
C7_NoProcessorBoundToRemovedTrack ==
    \A t \in Tracks :
        RemovedHandled(t)
           => /\ BoundTo(SupState(winQ), t) = {}
              /\ ~MapHas(pendingTracks, t)

\* C8: a processor on which stop() has been called posts no AUDIO_WS_SEND in any later
\* step, and its worklet port has no message handler.
C8_NoSendAfterStop ==
    [][\A i \in 1..Len(procs) :
          procs[i].stopCalls >= 1
             => /\ procs'[i].frames = procs[i].frames
                /\ ~procs'[i].onmessage]_vars

C8_Witness ==
    \E i, j \in 1..Len(procs) :
        /\ procs[i].stopCalls >= 1
        /\ procs[i].frames >= 1
        /\ procs[j].stopCalls >= 2
        /\ procs[j].frames = 0
        /\ procs[j].pc = "done"

\* Created 0, Starting 1, Running 2, Stopped 3
Phase(p) ==
    IF p.stopCalls >= 1 THEN 3
    ELSE IF p.isRunning THEN 2
    ELSE IF p.pc # "created" THEN 1
    ELSE 0

\* C9: no step moves a processor to an earlier phase; a processor on which stop() has
\* been called is not running and holds no graph node and no audio context, in every
\* later state; and a start() that has ended without running has ended in stop().
C9_ProcessorOnlyMovesForward ==
    [][\A i \in 1..Len(procs') :
          /\ i <= Len(procs) => Phase(procs'[i]) >= Phase(procs[i])
          /\ procs'[i].stopCalls >= 1 => Stopped(procs'[i])
          /\ (procs'[i].pc = "done" /\ ~procs'[i].isRunning) => procs'[i].stopCalls >= 1
          /\ procs'[i].isRunning => procs'[i].pc = "done"]_vars

C9_Witness ==
    \E i, j \in 1..Len(procs) :
        /\ procs[i].pc = "done"
        /\ procs[i].stopCalls = 1
        /\ procs[i].frames = 0
        /\ MapHas(audioProcessors, procs[i].participantId)
        /\ procs[j].stopCalls >= 1
        /\ procs[j].frames >= 1

\* C10: a processor that has consumed blocks whose resampled lengths total N has emitted
\* N \div frameSamples frames and buffers N % frameSamples samples.
C10_FramesAndRemainder ==
    \A i \in 1..Len(procs) :
        /\ procs[i].frames = procs[i].samples \div frameSamples
        /\ procs[i].bufferQueue = procs[i].samples % frameSamples

C10_Witness ==
    \E i \in 1..Len(procs) :
        /\ procs[i].actualRate # DEFAULT_SAMPLE_RATE
        /\ procs[i].frames >= 2
        /\ procs[i].bufferQueue > 0

\* the id the label inspection extracts for track t is in the participant registry
DirectMatch(t) ==
    /\ inspectTrackLabel(TrackLabel(t)) # NoPid
    /\ MapHas(participantsRegistry, inspectTrackLabel(TrackLabel(t)))

\* C11 as amended: when the id that the label inspection extracts from the label of an
\* added track (first pattern that matches, first occurrence) is in the participant
\* registry, the step that handles the track maps it to that id and posts one mapping
\* event for it, whatever the timestamps, and neither makes it pending nor sets a timer.
C11_ExtractedIdMapsDirectly ==
    [][DeliverTrackAdded
          => LET t == Head(winQ).trackId
                 id == inspectTrackLabel(TrackLabel(t))
             IN  DirectMatch(t)
                    => /\ trackToParticipant'[t] = id
                       /\ winQ' = Append(Tail(winQ), MappedMsg(t, id, FALSE))
                       /\ mappedCount'[t] = mappedCount[t] + 1
                       /\ pendingTracks' = pendingTracks
                       /\ timers' = timers]_vars

\* C11 as stated: when the label of an added track holds a participant, user or peer
\* token whose id is in the participant registry, the step that handles the track maps
\* it to that id and does not make it pending.
C11_AnyLabelTokenMapsDirectly ==
    [][DeliverTrackAdded
          => LET t == Head(winQ).trackId
                 label == TrackLabel(t)
             IN  \A n \in 1..Len(label) :
                    (label[n].kind \in {"participant", "user", "peer"}
                       /\ MapHas(participantsRegistry, label[n].id))
                       => /\ trackToParticipant'[t] = label[n].id
                          /\ pendingTracks' = pendingTracks
                          /\ timers' = timers]_vars

\* a track mapped to the id of its label although track and participant timestamps are
\* a full window apart
C11_Witness ==
    \E t \in Tracks :
        /\ trackToParticipant[t] = inspectTrackLabel(TrackLabel(t))
        /\ MapHas(tracksRegistry, t)
        /\ MapHas(participantsRegistry, trackToParticipant[t])
        /\ Abs(MapGet(tracksRegistry, t).capturedAt
                 - MapGet(participantsRegistry, trackToParticipant[t]).timestamp)
              >= TRACK_ASSIGNMENT_WINDOW_MS

\* the TRACK_PARTICIPANT_MAPPED messages tagged isFallback for track t in queue q
Fallbacks(q, t) ==
    Len(SelectSeq(q, LAMBDA m : m.type = "TRACK_PARTICIPANT_MAPPED" /\ m.trackId = t
                                  /\ m.isFallback))

\* what the fallback of track t leaves: t not pending, mapped to its fallback id, a
\* record for that id in the registry, one more mapping event tagged isFallback
FallbackDone(t) ==
    /\ ~MapHas(pendingTracks', t)
    /\ trackToParticipant'[t] = fallbackId(t)
    /\ MapHas(participantsRegistry', fallbackId(t))
    /\ ~MapHas(participantsRegistry, fallbackId(t))
          => participantsRegistry' =
                Append(participantsRegistry,
                       [key |-> fallbackId(t), timestamp |-> now, isFallback |-> TRUE])
    /\ winQ' = Append(winQ, MappedMsg(t, fallbackId(t), TRUE))
    /\ mappedCount'[t] = mappedCount[t] + 1

\* C12 as amended: when the fallback timer of a track runs, no earlier than 3000 ms after
\* the track was made pending, a track that is still pending (no participant was matched
\* to it and it was not removed) leaves the pending set, is mapped to its fallback id,
\* has a fallback participant record, and one mapping event tagged isFallback is posted;
\* for a track no longer pending the timer changes nothing; and no other step posts a
\* mapping event tagged isFallback.
C12_FallbackWhenTimerRuns ==
    [][/\ FallbackTimeout
          => LET t == Head(timers).trackId
             IN  /\ now >= Head(timers).setAt + TRACK_ASSIGNMENT_WINDOW_MS
                 /\ IF MapHas(pendingTracks, t)
                    THEN FallbackDone(t)
                    ELSE UNCHANGED <<pendingTracks, participantsRegistry, trackToParticipant,
                                     mappedCount, winQ>>
       /\ \A t \in Tracks :
             Fallbacks(winQ', t) > Fallbacks(winQ, t)
                => /\ timers # <<>>
                   /\ Head(timers).trackId = t
                   /\ timers' = Tail(timers)
                   /\ now >= Head(timers).setAt + TRACK_ASSIGNMENT_WINDOW_MS]_vars

\* C12 as stated: the timer of a track to which no participant was ever matched runs
\* exactly 3000 ms after the track was made pending and leaves a fallback participant
\* record, one mapping event tagged isFallback, and the track out of the pending set.
C12_FallbackAfterExactlyWindow ==
    [][(FallbackTimeout /\ mappedCount[Head(timers).trackId] = 0)
          => /\ now = Head(timers).setAt + TRACK_ASSIGNMENT_WINDOW_MS
             /\ FallbackDone(Head(timers).trackId)]_vars

\* a fallback has happened while a participant that does not match is in the registry
C12_Witness ==
    \E t \in Tracks :
        /\ trackToParticipant[t] = fallbackId(t)
        /\ ~MapHas(pendingTracks, t)
        /\ MapHas(participantsRegistry, fallbackId(t))
        /\ MapGet(participantsRegistry, fallbackId(t)).isFallback
        /\ Fallbacks(winQ, t) = 1
        /\ \E p \in Participants : MapHas(participantsRegistry, p)

\* C13: the step that handles an added track without a direct label match maps the
\* track if and only if some participant of the registry has a timestamp strictly less
\* than 3000 ms from the track's; the participant is then the earliest-inserted such
\* one; otherwise the track goes pending and stays unmapped.
C13_TimingMatchIsFirstWithinWindow ==
    [][DeliverTrackAdded
          => LET msg == Head(winQ)
                 t == msg.trackId
                 reg == participantsRegistry
                 near(i) == Abs(msg.timestamp - reg[i].timestamp) < TRACK_ASSIGNMENT_WINDOW_MS
             IN  ~DirectMatch(t)
                    => /\ (\E i \in 1..Len(reg) : near(i))
                             <=> mappedCount'[t] = mappedCount[t] + 1
                       /\ \A i \in 1..Len(reg) :
                             (near(i) /\ \A j \in 1..(i - 1) : ~near(j))
                                => /\ trackToParticipant'[t] = reg[i].key
                                   /\ winQ' = Append(Tail(winQ), MappedMsg(t, reg[i].key, FALSE))
                                   /\ pendingTracks' = pendingTracks
                       /\ (\A i \in 1..Len(reg) : ~near(i))
                             => /\ MapHas(pendingTracks', t)
                                /\ trackToParticipant' = trackToParticipant
                                /\ mappedCount' = mappedCount
                                /\ winQ' = Tail(winQ)]_vars

\* a track mapped to the earlier-inserted of two participants within the window, the
\* later-inserted one being closer in time
C13_Witness ==
    \E t \in Tracks, i, j \in 1..Len(participantsRegistry) :
        /\ i < j
        /\ MapHas(tracksRegistry, t)
        /\ trackToParticipant[t] = participantsRegistry[i].key
        /\ ~DirectMatch(t)
        /\ LET ts == MapGet(tracksRegistry, t).capturedAt
               di == Abs(ts - participantsRegistry[i].timestamp)
               dj == Abs(ts - participantsRegistry[j].timestamp)
           IN  di < TRACK_ASSIGNMENT_WINDOW_MS /\ dj < di

\* the correlation engine has been offered track t: it holds t as pending or mapped, or
\* a WEBRTC_TRACK_ADDED for t is in queue q on its way to it
Offered(q, t) ==
    \/ MapHas(pendingTracks, t)
    \/ trackToParticipant[t] # NoPid
    \/ \E k \in 1..Len(q) : q[k].type = "WEBRTC_TRACK_ADDED" /\ q[k].trackId = t

\* C14: the step that handles a start command posts WEBRTC_TRACK_ADDED, with the capture
\* timestamp, for the tracks of the interceptor's registry that the correlation engine
\* has not been offered, and for no track that it has been offered.
C14_ReplayOffersEachTrackOnce ==
    [][DeliverStart
          => /\ \A k \in 1..Len(tracksRegistry) : ~Offered(Tail(winQ), tracksRegistry[k].key)
             /\ winQ' = Tail(winQ) \o
                    [k \in 1..Len(tracksRegistry) |->
                        TrackAdded(tracksRegistry[k].key, tracksRegistry[k].capturedAt)]]_vars

\* socket c is the record of its tab (legacy) or of its tab and participant
InMap(c) ==
    \/ conns[c].kind = "participant" /\ RecordOf(conns[c].tab, conns[c].pid) = c
    \/ conns[c].kind = "legacy" /\ wsByTab[conns[c].tab] = c

\* C15: the error event and the close event of a socket that has not become ready, is
\* the proxy's record and has frames in its queue leave it the proxy's record, with the
\* frames of its queue.
C15_DropKeepsQueuedFrames ==
    [][(WsErrorEvent \/ WsCloseEvent)
          => \A c \in ConnIds :
                (InMap(c) /\ ~conns[c].ready /\ conns[c].queue # <<>>
                    /\ conns'[c].ws # conns[c].ws)
                   => /\ InMap(c)'
                      /\ conns'[c].queue = conns[c].queue]_vars

\* what AUDIO_WS_CLOSE for (tab, pid) does to the proxy
CloseEffect(tab, pid) ==
    IF tab = NoTab
    THEN UNCHANGED relayVars
    ELSE LET c == IF pid = NoPid THEN wsByTab[tab] ELSE RecordOf(tab, pid)
         IN  /\ IF pid = NoPid THEN wsByTab'[tab] = NoConn ELSE RecordOf(tab, pid)' = NoConn
             /\ c = NoConn => UNCHANGED relayVars
             /\ c # NoConn
                   => conns' = [conns EXCEPT ![c].ws = IF @ \in {"connecting", "open"}
                                                       THEN "closing" ELSE @]
             /\ \A other \in Participants \ {pid} :
                   RecordOf(tab, other)' = RecordOf(tab, other)
             /\ pid # NoPid => wsByTab' = wsByTab

\* C16: AUDIO_WS_CLOSE for a (tab, participant) leaves no record for it, starts the close
\* of the socket the record held and changes nothing else, so that the frames of its
\* queue are not transmitted, then or later; when there is no record (a second close)
\* it changes nothing; the records and sockets of the other participants are as before.
C16_CloseRemovesRecordAndQueue ==
    [][/\ RecvClose
          => \E tab \in Tabs \cup {NoTab}, pid \in PidsOf(captureMode) : CloseEffect(tab, pid)
       /\ \A c \in ConnIds :
             (conns[c].kind # "offscreen" /\ conns[c].ws \in {"closing", "closed"}
                 /\ ~InMap(c))
                => /\ conns'[c].sent = conns[c].sent
                   /\ ~InMap(c)']_vars

\* a closed record whose queued frame was never transmitted, next to the untouched
\* record of another participant
C16_Witness ==
    \E c, d \in ConnIds :
        /\ conns[c].kind = "participant"
        /\ conns[c].ws = "closing"
        /\ ~InMap(c)
        /\ RecordOf(conns[c].tab, conns[c].pid) = NoConn
        /\ conns[c].queue # <<>>
        /\ conns[c].sent = <<>>
        /\ conns[d].pid # conns[c].pid
        /\ InMap(d)
        /\ conns[d].ws = "connecting"
        /\ conns[d].queue # <<>>

\* what stop() releases and start() sets up, and the buffer
Resources(p) ==
    <<p.isRunning, p.audioContext, p.sourceNode, p.gainNode, p.workletNode, p.onmessage,
      p.stream, p.bufferQueue, p.bytesSent>>

\* C17: every step in which stop() is called on a processor, whatever the state the
\* processor is in (suspended inside start(), failed, running, already stopped), leaves
\* it not running, with no worklet handler, no graph node, no audio context and no
\* stream; and a call on a processor already stopped leaves all of these as they were.
C17_StopReleasesFromAnyState ==
    [][\A i \in 1..Len(procs') :
          LET before == IF i <= Len(procs) THEN procs[i].stopCalls ELSE 0
          IN  procs'[i].stopCalls > before
                 => /\ Stopped(procs'[i])
                    /\ ~procs'[i].stream
                    /\ before >= 1 => Resources(procs'[i]) = Resources(procs[i])]_vars

\* a processor stopped while running, and one stopped twice
C17_Witness ==
    \E i, j \in 1..Len(procs) :
        /\ procs[i].stopCalls = 1
        /\ procs[i].frames >= 1
        /\ Stopped(procs[i])
        /\ ~procs[i].stream
        /\ procs[j].stopCalls >= 2
        /\ Stopped(procs[j])
        /\ ~procs[j].stream

\* C18: a call of start() on a running processor changes no processor, but for the
\* count of such calls, leaves the active set as it is and posts no message.
C18_StartOnRunningIsNoOp ==
    [][StartCalled
          => /\ winQ' = winQ
             /\ audioProcessors' = audioProcessors
             /\ Len(procs') = Len(procs)
             /\ \A i \in 1..Len(procs) :
                   [procs'[i] EXCEPT !.restarts = 0] = [procs[i] EXCEPT !.restarts = 0]]_vars

\* start() has been called on a processor that was running, with samples in its buffer
\* and frames sent, and the processor is still running
C18_Witness ==
    \E i \in 1..Len(procs) :
        /\ procs[i].restarts >= 1
        /\ procs[i].isRunning
        /\ procs[i].onmessage
        /\ procs[i].frames >= 1
        /\ procs[i].opens = 1

\* C19: a step in which stop() is called on processors of one participant only (a failed
\* start, a track removal, a stop) leaves the processors of the other participants and
\* their membership in the active set as they were; and a step in which a socket of one
\* participant starts to close or closes leaves the records and the sockets of the
\* other participants of the tab as they were.
C19_OtherParticipantsUntouched ==
    [][/\ \A pid \in Participants :
             (/\ \E i \in 1..Len(procs) :
                    procs[i].participantId = pid /\ procs'[i].stopCalls > procs[i].stopCalls
              /\ \A i \in 1..Len(procs) :
                    procs[i].participantId # pid => procs'[i].stopCalls = procs[i].stopCalls)
                => /\ \A i \in 1..Len(procs) :
                         procs[i].participantId # pid => procs'[i] = procs[i]
                   /\ \A other \in Participants \ {pid} :
                         MapHas(audioProcessors', other) = MapHas(audioProcessors, other)
       /\ \A c \in ConnIds :
             (/\ conns[c].kind = "participant"
              /\ conns'[c].ws # conns[c].ws
              /\ conns'[c].ws \in {"closing", "closed"})
                => \A other \in Participants \ {conns[c].pid} :
                      LET d == RecordOf(conns[c].tab, other)
                      IN  /\ RecordOf(conns[c].tab, other)' = d
                          /\ d # NoConn => conns'[d] = conns[d]]_vars

\* the frames of the participants other than pid in the content script's queue
OthersFrames(pid) ==
    Len(SelectSeq(messageQueue,
                  LAMBDA m : m.type = "AUDIO_WS_SEND" /\ m.participantId # pid))

\* C20: whether the content script keeps a frame of a participant for the port does not
\* depend on the frames the other participants have queued: while the port is not
\* there, a frame is queued when the queue, the other participants' frames left out,
\* is shorter than the cap of 50.
C20_FrameKeptWhateverOthersQueued ==
    [][DeliverToBridge
          => LET data == Head(winQ)
             IN  (/\ data.type = "AUDIO_WS_SEND"
                  /\ wsPort = "null"
                  /\ Len(messageQueue) - OthersFrames(data.participantId) < MESSAGE_QUEUE_MAX)
                    => messageQueue' =
                          Append(messageQueue,
                                 Msg(data.type, TabIdOf(data), data.participantId, data.url,
                                     data.buffer))]_vars

C22_MappingKeptUntilRemoval ==
    [][\A t \in Tracks :
          trackToParticipant[t] # NoPid
             => \/ trackToParticipant'[t] = trackToParticipant[t]
                \/ /\ DeliverTrackRemoved
                   /\ Head(winQ).trackId = t
                   /\ trackToParticipant'[t] = NoPid]_vars

\* C23: every AUDIO_WS_SEND a processor has posted holds exactly
\* round(targetSampleRate * 0.02) 16-bit samples, one whole frame of 20 ms, whatever
\* the lengths of the blocks and the rate of the audio context.
C23_OneWholeFramePerMessage ==
    \A k \in 1..Len(winQ) :
        winQ[k].type = "AUDIO_WS_SEND"
           => winQ[k].samples = (2 * DEFAULT_SAMPLE_RATE * 2 + 100) \div 200

\* a block has left a processor with frames posted, one of them still in the window's
\* queue, and a remainder shorter than a frame in its buffer
C23_Witness ==
    \E i \in 1..Len(procs) :
        /\ procs[i].frames >= 2
        /\ procs[i].bufferQueue > 0
        /\ procs[i].bytesSent = procs[i].frames * FrameBytes
        /\ \E k \in 1..Len(winQ) :
              winQ[k].type = "AUDIO_WS_SEND" /\ winQ[k].participantId = procs[i].participantId

\* C24: every number floatTo16BitPCM assigns to its output is in [-32768, 32767], so
\* that the Int16Array holds it as it is, for samples within full scale, above 1 and
\* below -1, amplified or not.
C24_QuantizeStaysInRange ==
    quant.called
       => \A i \in 1..Len(quant.float32) :
             /\ quant.scaled[i] >= -32768
             /\ quant.scaled[i] <= 32767
             /\ quant.out[i] = quant.scaled[i]

\* a frame with a sample above 1 and a sample below -1 has been quantized to the two
\* ends of the range
C24_Witness ==
    /\ quant.called
    /\ \E i, j \in 1..Len(quant.float32) :
          /\ quant.float32[i] > Unit /\ quant.out[i] = 32767
          /\ quant.float32[j] < -Unit /\ quant.out[j] = -32768

\* the gain is 50, is 1, is 0.7 / peak
GainIs50(g) == g.num * Unit = 50 * g.den

GainIs1(g) == g.num * Unit = g.den

GainIsTarget(g, peak) == g.num * 10 * peak = 7 * g.den

\* the gain is min(50, 0.7 / peak), for a peak above 0
GainIsMin(g, peak) == IF 7 * Unit < 500 * peak THEN GainIsTarget(g, peak) ELSE GainIs50(g)

\* C25 (as amended): the gain floatTo16BitPCM applies to a frame is min(50, 0.7 / peak)
\* whenever the peak of the frame satisfies 0.00001 < peak < 0.3, and 1 otherwise.
C25_GainAboveNoiseFloor ==
    quant.called
       => IF quant.peak > Unit \div 100000 /\ 10 * quant.peak < 3 * Unit
          THEN GainIsMin(quant.gain, quant.peak)
          ELSE GainIs1(quant.gain)

\* C25: the gain floatTo16BitPCM applies to a frame is min(50, 0.7 / peak) whenever the
\* peak of the frame satisfies 0 < peak < 0.3, and 1 otherwise.
C25_GainFromAnyPeakAboveZero ==
    quant.called
       => IF quant.peak > 0 /\ 10 * quant.peak < 3 * Unit
          THEN GainIsMin(quant.gain, quant.peak)
          ELSE GainIs1(quant.gain)

\* a frame of peak 0.01 has been quantized with gain 50
C25_Witness ==
    /\ quant.called
    /\ 100 * quant.peak = Unit
    /\ GainIs50(quant.gain)
    /\ \E i \in 1..Len(quant.float32) : Abs(quant.out[i]) > 16000

TransportCloses(c) == conns[c].ws # "closed" /\ conns'[c].ws = "closed"

\* C27: the record of a (tab, participant), or the legacy record of a tab, leaves the
\* proxy's map only in the step of an AUDIO_WS_CLOSE for that pair or in the step in
\* which the transport the record holds closes: the close event of another transport,
\* replaced or closed before, removes no record.
C27_RecordRemovedOnlyByItsOwnClose ==
    [][\A tab \in Tabs :
          /\ \A pid \in Participants :
                LET c == RecordOf(tab, pid)
                IN  (c # NoConn /\ RecordOf(tab, pid)' = NoConn)
                       => \/ RecvClose /\ CloseEffect(tab, pid)
                          \/ TransportCloses(c)
          /\ LET c == wsByTab[tab]
             IN  (c # NoConn /\ wsByTab'[tab] = NoConn)
                    => \/ RecvClose /\ CloseEffect(tab, NoPid)
                       \/ TransportCloses(c)]_vars

\* C28: every processor that is running has posted an AUDIO_WS_OPEN for its participant
\* in its start().
C28_RunningHasOpenedRelay ==
    \A i \in 1..Len(procs) : procs[i].isRunning => procs[i].opens >= 1

\* C29: a track is never resolved both by the assignment at a participant's join and
\* by the fallback timer: once a join has assigned it, no timer posts a fallback mapping
\* or creates a fallback participant for it, and once the timer has resolved it, no join
\* assigns it.
C29_JoinOrTimerNotBoth ==
    /\ \A t \in Tracks : ~({"join", "fallback"} \subseteq resolvedBy[t])
    /\ \A t \in Tracks :
          "join" \in resolvedBy[t] => ~MapHas(participantsRegistry, fallbackId(t))

\* a join has assigned a pending track and the fallback timer of the track has run since
C29_Witness ==
    /\ timers = <<>>
    /\ now >= TRACK_ASSIGNMENT_WINDOW_MS
    /\ \E t \in Tracks :
          /\ resolvedBy[t] = {"join"}
          /\ mappedCount[t] = 1
          /\ trackToParticipant[t] \in Participants

\* C30: no track is both in pendingTracks and in trackToParticipant, in any state between
\* two handled events.
C30_PendingAndMappedDisjoint ==
    \A t \in Tracks : ~(MapHas(pendingTracks, t) /\ trackToParticipant[t] # NoPid)

\* C31: the step that handles WEBRTC_TRACK_REMOVED for a track leaves the track without
\* an entry in trackToParticipant and in pendingTracks, leaves the entries of every other
\* track, the participant registry and the fallback timers as they were, and leaves the
\* processors and the active set as the supervisor's own listener on the same message
\* leaves them: the correlation engine writes neither.
C31_TrackRemovedTouchesOnlyItsTrack ==
    [][DeliverTrackRemoved
          => LET t == Head(winQ).trackId
             IN  /\ trackToParticipant'[t] = NoPid
                 /\ ~MapHas(pendingTracks', t)
                 /\ \A u \in Tracks \ {t} :
                       /\ trackToParticipant'[u] = trackToParticipant[u]
                       /\ MapHas(pendingTracks', u) = MapHas(pendingTracks, u)
                       /\ MapHas(pendingTracks, u)
                             => MapGet(pendingTracks', u) = MapGet(pendingTracks, u)
                 /\ participantsRegistry' = participantsRegistry
                 /\ timers' = timers
                 /\ SupState(winQ)' = SupervisorOnTrackRemoved(SupState(Tail(winQ)), Head(winQ))
                 /\ BoundTo(SupState(Tail(winQ)), t) = {}
                       => audioProcessors' = audioProcessors /\ procs' = procs]_vars

C31_Witness ==
    \E t \in Tracks :
        /\ RemovedHandled(t)
        /\ mappedCount[t] >= 1
        /\ trackToParticipant[t] = NoPid
        /\ participantsRegistry # <<>>
        /\ \E u \in Tracks \ {t} : MapHas(pendingTracks, u)

\* C32: the registry holds at most one record per participant id; a record, once set,
\* keeps its place and its join timestamp through every step, a scan that finds its tile
\* again and a fallback timer that derives its id included; and MEET_PARTICIPANT_JOINED
\* has been posted at most once per id, and never for a fallback id.
C32_ParticipantRegisteredOnce ==
    [][/\ \A i, j \in 1..Len(participantsRegistry') :
             participantsRegistry'[i].key = participantsRegistry'[j].key => i = j
       /\ Len(participantsRegistry') >= Len(participantsRegistry)
       /\ \A i \in 1..Len(participantsRegistry) :
             participantsRegistry'[i] = participantsRegistry[i]
       /\ \A p \in Participants :
             /\ scans'[p].posted <= 1
             /\ scans'[p].posted = 1 <=> MapHas(participantsRegistry', p)]_vars

\* a tile has been found again by a later scan, and the fallback timers of two tracks
\* have derived the same id, the second one finding the record of the first
C32_Witness ==
    /\ \E p \in Participants :
          /\ scans[p].found >= 2
          /\ scans[p].posted = 1
    /\ \E t, u \in DOMAIN trackToParticipant :
          /\ t # u
          /\ fallbackId(t) = fallbackId(u)
          /\ "fallback" \in resolvedBy[t] \cap resolvedBy[u]
          /\ MapHas(participantsRegistry, fallbackId(t))

\* C33: two distinct tracks that the fallback timer has mapped, each to the fallback id
\* derived from its own track id, are mapped to different participant ids.
C33_DistinctFallbackIds ==
    \A t, u \in DOMAIN trackToParticipant :
        (/\ t # u
         /\ "fallback" \in resolvedBy[t] \cap resolvedBy[u]
         /\ trackToParticipant[t] = fallbackId(t)
         /\ trackToParticipant[u] = fallbackId(u))
           => trackToParticipant[t] # trackToParticipant[u]

\* C34: every processor in the active set is inside start() or running: none of them
\* has been stopped.
C34_ActiveSetHoldsLiveProcessors ==
    \A k \in 1..Len(audioProcessors) :
        LET p == procs[audioProcessors[k].proc]
        IN  /\ p.stopCalls = 0
            /\ p.isRunning \/ p.pc \in {"atResume", "atAddModule"}

\* the per-participant sockets of the tab that are connecting or open
OpenParticipantConns(tab) ==
    {c \in ConnIds : /\ conns[c].kind = "participant"
                     /\ conns[c].tab = tab
                     /\ conns[c].ws \in {"connecting", "open"}}

\* C35: every processor that has not been stopped when the service worker handles the
\* user's STOP_CAPTURE is stopped eventually, and every per-participant socket of the tab
\* that is connecting or open at that time is eventually neither.
C35_UserStopStopsMultitrack ==
    /\ \A i \in 1..MaxStopEvents :
          (stopCapture = "sent" /\ i <= Len(procs) /\ procs[i].stopCalls = 0)
             ~> (i <= Len(procs) /\ procs[i].stopCalls >= 1)
    /\ \A c \in 1..MaxStopEvents, tab \in Tabs :
          (stopCapture = "sent" /\ c \in OpenParticipantConns(tab))
             ~> (c \notin OpenParticipantConns(tab))

\* C36: in a page that has been given START_CAPTURE more than once, at most one
\* processor per participant has not been stopped, and TRACK_PARTICIPANT_MAPPED has been
\* posted at most once for each live track.
C36_StartAgainDuplicatesNothing ==
    Len(mtInstances) >= 2
       => /\ \A pid \in Participants : Cardinality(Unstopped(procs, pid)) <= 1
          /\ \A t \in Tracks : trackState[t] = "live" => mappedCount[t] <= 1

\* -------------------- specification of the interceptor with several listeners
\* the handlers the peer connection runs for a 'track' event: one wrapper for each
\* addEventListener('track') call, and the handler the ontrack setter installed
Handlers(c) == c.trackListeners + (IF c.ontrack THEN 1 ELSE 0)

\* pc.addEventListener('track', listener): a new wrapper is put on the connection
AddTrackListener ==
    /\ pc.trackListeners < MaxListeners
    /\ budget > 0
    /\ budget' = budget - 1
    /\ pc' = [pc EXCEPT !.trackListeners = @ + 1]
    /\ UNCHANGED <<trackState, tracksRegistry, detectorVars, mtGlobals, supervisorVars, winQ,
                   now, outsidePage, nextFrame>>

\* pc.ontrack = handler
SetOnTrack ==
    /\ ~pc.ontrack
    /\ budget > 0
    /\ budget' = budget - 1
    /\ pc' = [pc EXCEPT !.ontrack = TRUE]
    /\ UNCHANGED <<trackState, tracksRegistry, detectorVars, mtGlobals, supervisorVars, winQ,
                   now, outsidePage, nextFrame>>

\* a 'track' event carrying remote audio track t: every handler on the connection calls
\* handleRemoteAudioTrack, which stores the track, puts an 'ended' listener on it and posts
\* WEBRTC_TRACK_ADDED
TrackEventAll ==
    \E t \in Tracks :
        LET k == Handlers(pc)
        IN  /\ trackState[t] = "new"
            /\ Len(winQ) + k <= MaxInterceptorQ
            /\ budget > 0
            /\ budget' = budget - 1
            /\ trackState' = [trackState EXCEPT ![t] = "live"]
            /\ tracksRegistry' = IF k > 0
                                 THEN MapSet(tracksRegistry, [key |-> t, capturedAt |-> now])
                                 ELSE tracksRegistry
            /\ winQ' = winQ \o [i \in 1..k |-> TrackAdded(t, now)]
            /\ pc' = [pc EXCEPT !.ended[t] = @ + k, !.added[t] = @ + k]
            /\ UNCHANGED <<detectorVars, mtGlobals, supervisorVars, now, outsidePage,
                           nextFrame>>

\* the 'ended' event of track t: every 'ended' listener put on it deletes the entry of the
\* track and posts WEBRTC_TRACK_REMOVED
TrackEndedAll ==
    \E t \in Tracks :
        LET k == pc.ended[t]
        IN  /\ trackState[t] = "live"
            /\ Len(winQ) + k <= MaxInterceptorQ
            /\ budget > 0
            /\ budget' = budget - 1
            /\ trackState' = [trackState EXCEPT ![t] = "ended"]
            /\ tracksRegistry' = IF k > 0 THEN MapDelete(tracksRegistry, t) ELSE tracksRegistry
            /\ winQ' = winQ \o [i \in 1..k |-> TrackRemoved(t)]
            /\ pc' = [pc EXCEPT !.removed[t] = @ + k]
            /\ UNCHANGED <<detectorVars, mtGlobals, supervisorVars, now, outsidePage,
                           nextFrame>>

\* a page that has made its peer connection and put no listener on it yet
InitInterceptor ==
    /\ RelayInit
    /\ OffInit
    /\ SignalIdle
    /\ BridgeInit
    /\ captureMode = "multitrack"
    /\ deviceRate = DEFAULT_SAMPLE_RATE
    /\ nextFrame = 1
    /\ trackState = [t \in Tracks |-> "new"]
    /\ tracksRegistry = <<>>
    /\ pc = NewPeerConnection(Tracks, 0, FALSE)
    /\ participantsRegistry = <<>>
    /\ trackToParticipant = [t \in Tracks |-> NoPid]
    /\ pendingTracks = <<>>
    /\ timers = <<>>
    /\ mappedCount = [t \in Tracks |-> 0]
    /\ resolvedBy = [t \in Tracks |-> {}]
    /\ scans = [p \in Participants |-> [found |-> 0, posted |-> 0]]
    /\ mt_tabId = NoTab
    /\ mt_meetingId = FALSE
    /\ mt_wsBaseUrl = FALSE
    /\ audioProcessors = <<>>
    /\ procs = <<>>
    /\ mtInstances = <<>>
    /\ winQ = <<>>
    /\ now = 0
    /\ budget = MaxInterceptorEvents

InterceptorNext ==
    \/ AddTrackListener
    \/ SetOnTrack
    \/ TrackEventAll
    \/ TrackEndedAll
    \/ DeliverTrackAdded
    \/ DeliverTrackRemoved

SpecInterceptor == InitInterceptor /\ [][InterceptorNext]_vars

\* C37: a remote audio track that a handler of the interceptor has seen has had exactly one
\* WEBRTC_TRACK_ADDED posted for it, has had exactly one WEBRTC_TRACK_REMOVED posted for it
\* once it has ended and none before, and is in tracksRegistry exactly while it is live,
\* whatever the number of 'track' listeners and ontrack handlers on the peer connection.
C37_OneAddedOneRemovedPerTrack ==
    \A t \in Tracks :
        pc.ended[t] >= 1
           => /\ pc.added[t] = 1
              /\ pc.removed[t] = (IF trackState[t] = "ended" THEN 1 ELSE 0)
              /\ MapHas(tracksRegistry, t) <=> trackState[t] = "live"

\* a socket has been made for the (tab, participant) pair of relay message msg
RecordMade(msg) ==
    \E c \in 1..Len(conns) : /\ conns[c].kind = "participant"
                             /\ conns[c].tab = msg.tabId
                             /\ conns[c].pid = msg.participantId

\* C38: a processor that has posted a frame has posted its AUDIO_WS_OPEN before, and when
\* the relay proxy receives a frame, it has received the AUDIO_WS_OPEN of the frame's tab
\* and participant before and made the connection record: no frame finds that its record
\* has not been made yet.
C38_OpenBeforeFirstFrame ==
    [][/\ \A i \in 1..Len(procs') : procs'[i].frames >= 1 => procs'[i].opens >= 1
       /\ (PortReceive /\ Head(portQ).type = "AUDIO_WS_SEND") => RecordMade(Head(portQ))]_vars

\* C39: a track mapped to a participant whose record the fallback timer has synthesized
\* is the track that record's id was derived from: timing correlation gives no other
\* track to a fallback participant.
C39_TimingNeverPicksFallback ==
    \A t \in DOMAIN trackToParticipant :
        LET p == trackToParticipant[t]
        IN  (/\ p # NoPid
             /\ MapHas(participantsRegistry, p)
             /\ MapGet(participantsRegistry, p).isFallback)
               => p = fallbackId(t)

\* ------------------------ specification of the bridge, its queue and its port
\* the processors of a running page, the content script and the port, with the service
\* worker stopping and the port reconnecting; the port-creation timeout runs when due
InitBridge == RunningPage(MaxBridgeEvents) /\ deviceRate = DEFAULT_SAMPLE_RATE

BridgeNext ==
    \/ MappingPosted
    \/ DeliverMapped
    \/ ResumeSettled
    \/ AddModuleSettled
    \/ WorkletMessage
    \/ DeliverToBridge
    \/ PortCreationTimeout
    \/ PortDisconnected
    \/ ReconnectTimeout
    \/ PortReceive
    \/ ServiceWorkerStops

SpecBridge == InitBridge /\ [][BridgeNext]_vars /\ WF_vars(PortCreationTimeout)

====
